---- MODULE Spec2Model ----
(***************************************************************************)
(* State-machine model of the WarFrontLive front end.                      *)
(*                                                                         *)
(* Two script variants live in the repository: src/unnamed/part_000 (the   *)
(* variant with region entities, "the region variant") and src/script.js   *)
(* (the variant with zoom-dependent rectangles, "the rectangle variant").  *)
(*                                                                         *)
(* JavaScript strings are sequences of one-character strings, so that      *)
(* trim() and toLowerCase() are computed and not assumed.  Coordinates are *)
(* integers, in hundredths of a degree; timestamps are integers.           *)
(***************************************************************************)
EXTENDS Integers, Sequences, FiniteSets, TLC

VARIABLES
    allMessages,            \* part_000:12   all messages loaded from the source
    locationCache,          \* part_000:13   normalized key -> cached value
    messageStore,           \* part_000:8    msg id number -> message
    regionStore,            \* part_000:9    region id number -> region entity
    nextMsgId,              \* part_000:10
    nextRegionId,           \* part_000:11
    markerClusterGroup,     \* part_000:4    point markers, in insertion order
    rectangleLayerGroup,    \* part_000:5    region ids whose rectangle is in the group
    regionMarkersGroup,     \* part_000:6    region ids whose marker is in the group
    currentSelectedRegion,  \* part_000:16
    filteredEventsMessages, \* part_000:14
    rectangles,             \* rectangle id -> the L.rectangle: its bounds and style
    rawLocationCache,       \* part_000:82  the cache as the source supplied it
    mapHasMarkerLayer,      \* map.hasLayer(markerClusterGroup)
    mapHasRegionMarkers,    \* map.hasLayer(regionMarkersGroup)
    mapHasRectangleLayer,   \* map.hasLayer(rectangleLayerGroup)
    paintOrder,             \* the rectangles drawn on the map, from back to front
    currentZoom,            \* map.getZoom(); read by script.js alone
    viewport,               \* the spans of map.getBounds(); read by script.js alone
    details,                \* the details panel: shown or not, and the messages listed;
                            \* where one function is run on its own, what it returned
    phase,                  \* "start" before initMap has run, "ready" after
    lastMessages,           \* the argument of the last refreshMarkers call
    calls,                  \* the addLocationToMap calls made since the last clearing
    currentView,            \* part_000:15  "map" or "events"
    loadErrorAlerts,        \* the alerts 'Error loading or processing data.' raised
    eventsInputs            \* the values of the filter inputs of the events view

vars == <<allMessages, locationCache, messageStore, regionStore, nextMsgId,
          nextRegionId, markerClusterGroup, rectangleLayerGroup,
          regionMarkersGroup, currentSelectedRegion, filteredEventsMessages,
          rectangles, rawLocationCache, mapHasMarkerLayer, mapHasRegionMarkers,
          mapHasRectangleLayer, paintOrder, currentZoom, viewport, details, phase,
          lastMessages, calls, currentView, loadErrorAlerts, eventsInputs>>

-----------------------------------------------------------------------------
(* Bounds of the model.                                                    *)

MaxIngest == 3
MaxTierIngest == 11
MaxMessages == 2
MaxScriptMessages == 1
MaxQueryMessages == 3
MaxShapes == 3
MaxSearchMessages == 2
MaxEventMessages == 2
MaxTextLen == 3

-----------------------------------------------------------------------------
(* JavaScript values.                                                      *)

\* An element of msg.locations: a string, null or a number.
Str(s) == [t |-> "string", s |-> s, n |-> 0]
Num(n) == [t |-> "number", s |-> <<>>, n |-> n]
JNull == [t |-> "null", s |-> <<>>, n |-> 0]

\* A value of the location cache.  `has` is the set of properties that are
\* present: coord.x !== undefined holds exactly when "x" is in it.
Point(lat, lon) ==
    [t |-> "object", has |-> {"lat", "lon"}, lat |-> lat, lon |-> lon,
     north |-> 0, south |-> 0, east |-> 0, west |-> 0]
Region(n, s, e, w) ==
    [t |-> "object", has |-> {"north", "south", "east", "west"}, lat |-> 0, lon |-> 0,
     north |-> n, south |-> s, east |-> e, west |-> w]
PointAndRegion(lat, lon, n, s, e, w) ==
    [t |-> "object", has |-> {"lat", "lon", "north", "south", "east", "west"},
     lat |-> lat, lon |-> lon, north |-> n, south |-> s, east |-> e, west |-> w]
EmptyObject ==
    [t |-> "object", has |-> {}, lat |-> 0, lon |-> 0,
     north |-> 0, south |-> 0, east |-> 0, west |-> 0]
CacheNull ==
    [t |-> "null", has |-> {}, lat |-> 0, lon |-> 0,
     north |-> 0, south |-> 0, east |-> 0, west |-> 0]
CacheFalse ==
    [t |-> "boolean", has |-> {}, lat |-> 0, lon |-> 0,
     north |-> 0, south |-> 0, east |-> 0, west |-> 0]
Undefined ==
    [t |-> "undefined", has |-> {}, lat |-> 0, lon |-> 0,
     north |-> 0, south |-> 0, east |-> 0, west |-> 0]

\* JavaScript truthiness of a cache value: objects are truthy; null, false and
\* undefined are falsy.
Truthy(v) == v.t = "object"

-----------------------------------------------------------------------------
(* String.prototype.trim and toLowerCase.                                  *)

IsWhitespace(c) == c \in {" "}

UpperCaseLetters ==
    <<"A", "B", "C", "D", "E", "F", "G", "H", "I", "J", "K", "L", "M",
      "N", "O", "P", "Q", "R", "S", "T", "U", "V", "W", "X", "Y", "Z">>
LowerCaseLetters ==
    <<"a", "b", "c", "d", "e", "f", "g", "h", "i", "j", "k", "l", "m",
      "n", "o", "p", "q", "r", "s", "t", "u", "v", "w", "x", "y", "z">>
Digits == <<"0", "1", "2", "3", "4", "5", "6", "7", "8", "9">>

Range(f) == {f[i] : i \in DOMAIN f}

toLowerCaseChar(c) ==
    IF c \in Range(UpperCaseLetters)
    THEN LowerCaseLetters[CHOOSE i \in DOMAIN UpperCaseLetters : UpperCaseLetters[i] = c]
    ELSE c

toLowerCase(s) == [i \in 1..Len(s) |-> toLowerCaseChar(s[i])]

RECURSIVE trimStart(_)
trimStart(s) ==
    IF s # <<>> /\ IsWhitespace(Head(s)) THEN trimStart(Tail(s)) ELSE s

RECURSIVE trimEnd(_)
trimEnd(s) ==
    IF s # <<>> /\ IsWhitespace(s[Len(s)])
    THEN trimEnd(SubSeq(s, 1, Len(s) - 1))
    ELSE s

trim(s) == trimEnd(trimStart(s))

\* location.trim().toLowerCase()
locationKeyOf(s) == toLowerCase(trim(s))

-----------------------------------------------------------------------------
(* The text search.                                                        *)

\* \w of a regular expression.
IsWordChar(c) ==
    c \in Range(UpperCaseLetters) \cup Range(LowerCaseLetters) \cup Range(Digits) \cup {"_"}

\* s.replace(/\s+/g, ' ')
RECURSIVE collapseWhitespace(_)
collapseWhitespace(s) ==
    IF s = <<>> THEN <<>>
    ELSE IF IsWhitespace(Head(s))
         THEN <<" ">> \o collapseWhitespace(trimStart(s))
         ELSE <<Head(s)>> \o collapseWhitespace(Tail(s))

\* A normalization that trims before it replaces the punctuation.
normalizeText_TrimFirst(text) ==
    LET lower == trim(toLowerCase(text))
        spaced == [i \in 1..Len(lower) |->
                      IF IsWordChar(lower[i]) \/ IsWhitespace(lower[i])
                      THEN lower[i] ELSE " "]
    IN collapseWhitespace(spaced)

normalizeText(text) ==
    LET lower == toLowerCase(text)
        spaced == [i \in 1..Len(lower) |->
                      IF IsWordChar(lower[i]) \/ IsWhitespace(lower[i])
                      THEN lower[i] ELSE " "]
    IN trim(collapseWhitespace(spaced))

\* s.split(/\s+/): the pieces between the runs of whitespace, empty pieces at
\* the ends included; one empty piece for the empty string.
RECURSIVE splitWhitespace(_)
splitWhitespace(s) ==
    IF \A i \in 1..Len(s) : ~IsWhitespace(s[i]) THEN <<s>>
    ELSE LET first == CHOOSE i \in 1..Len(s) :
                          IsWhitespace(s[i]) /\ \A h \in 1..(i - 1) : ~IsWhitespace(s[h])
         IN <<SubSeq(s, 1, first - 1)>>
                \o splitWhitespace(trimStart(SubSeq(s, first, Len(s))))

includes(s, part) ==
    \E i \in 0..(Len(s) - Len(part)) : SubSeq(s, i + 1, i + Len(part)) = part

startsWith(s, prefix) ==
    Len(prefix) <= Len(s) /\ SubSeq(s, 1, Len(prefix)) = prefix

Min2(a, b) == IF a <= b THEN a ELSE b

\* A row whose substitution term is dropped where the characters differ.
RECURSIVE levenshteinRow_NoSubstitution(_, _, _, _)
levenshteinRow_NoSubstitution(previous, row, str1, c2) ==
    IF Len(row) = Len(str1) + 1 THEN row
    ELSE LET i == Len(row)
             cell == IF str1[i] = c2
                     THEN Min2(Min2(row[i] + 1, previous[i + 1] + 1), previous[i])
                     ELSE Min2(row[i] + 1, previous[i + 1] + 1)
         IN levenshteinRow_NoSubstitution(previous, Append(row, cell), str1, c2)

\* One row of the matrix of levenshteinDistance: row j from row j - 1, filled
\* from left to right.
RECURSIVE levenshteinRow(_, _, _, _)
levenshteinRow(previous, row, str1, c2) ==
    IF Len(row) = Len(str1) + 1 THEN row
    ELSE LET i == Len(row)
             cost == IF str1[i] = c2 THEN 0 ELSE 1
             cell == Min2(Min2(row[i] + 1, previous[i + 1] + 1), previous[i] + cost)
         IN levenshteinRow(previous, Append(row, cell), str1, c2)

RECURSIVE levenshteinRows(_, _, _, _)
levenshteinRows(previous, j, str1, str2) ==
    IF j > Len(str2) THEN previous
    ELSE levenshteinRows(levenshteinRow(previous, <<j>>, str1, str2[j]), j + 1, str1, str2)

levenshteinDistance(str1, str2) ==
    levenshteinRows([i \in 1..(Len(str1) + 1) |-> i - 1], 1, str1, str2)[Len(str1) + 1]

Max2(a, b) == IF a >= b THEN a ELSE b
Abs(a) == IF a >= 0 THEN a ELSE -a

\* calculateSimilarity(str1, str2) >= 0.8, in integers: (max - d) / max >= 4 / 5.
similarityAtLeastThreshold(str1, str2) ==
    LET maxLength == Max2(Len(str1), Len(str2)) IN
    IF maxLength = 0 THEN TRUE
    ELSE 5 * (maxLength - levenshteinDistance(str1, str2)) >= 4 * maxLength

\* fuzzyStringMatch(text, pattern, 0.8); the length test
\* |word.length - pattern.length| > pattern.length * 0.4 in integers.
fuzzyStringMatch(text, pattern) ==
    LET words == splitWhitespace(text) IN
    \E k \in 1..Len(words) :
        /\ ~(5 * Abs(Len(words[k]) - Len(pattern)) > 2 * Len(pattern))
        /\ similarityAtLeastThreshold(words[k], pattern)

\* Number.prototype.toString of a natural number.
RECURSIVE numberToString(_)
numberToString(n) ==
    IF n < 10 THEN <<Digits[n + 1]>>
    ELSE numberToString(n \div 10) \o <<Digits[(n % 10) + 1]>>

\* field.toString() of a location entry; null has no toString.
toStringThrows(location) == location.t = "null"
toStringOf(location) ==
    IF location.t = "number" THEN numberToString(location.n) ELSE location.s

\* searchText.toLowerCase().split(/\s+/).filter(word => word.length > 0)
searchWordsOf(searchText) ==
    LET NonEmpty(word) == Len(word) > 0 IN
    SelectSeq(splitWhitespace(toLowerCase(searchText)), NonEmpty)

\* The normalized text fields of a message.
textFieldsOf(msg) ==
    <<normalizeText(msg.text), normalizeText(msg.cleaned_text), normalizeText(msg.channel)>>
        \o [j \in 1..Len(msg.locations) |-> normalizeText(toStringOf(msg.locations[j]))]

\* A match that builds the text fields before it looks at the search words.
isTextMatch_NoEmptyShortcut(msg, searchText) ==
    LET searchWords == searchWordsOf(searchText)
        Words == 1..Len(searchWords)
    IN
    IF \E j \in 1..Len(msg.locations) : toStringThrows(msg.locations[j])
    THEN [threw |-> TRUE, match |-> FALSE]
    ELSE
    LET textFields == textFieldsOf(msg)
        Fields == 1..Len(textFields)
        allWordsMatch ==
            \A w \in Words : \E f \in Fields : includes(textFields[f], searchWords[w])
        singleFieldMatch ==
            \E f \in Fields : \A w \in Words : includes(textFields[f], searchWords[w])
        fuzzyMatch ==
            \E w \in Words :
                /\ Len(searchWords[w]) > 3
                /\ \E f \in Fields : fuzzyStringMatch(textFields[f], searchWords[w])
        partialMatch ==
            \E w \in Words :
                /\ Len(searchWords[w]) > 2
                /\ \E f \in Fields :
                       LET fieldWords == splitWhitespace(textFields[f]) IN
                       \E k \in 1..Len(fieldWords) :
                           \/ startsWith(fieldWords[k], searchWords[w])
                           \/ startsWith(searchWords[w], fieldWords[k])
    IN [threw |-> FALSE,
        match |-> allWordsMatch \/ singleFieldMatch \/ fuzzyMatch \/ partialMatch]

\* The outcome of isTextMatch(msg, searchText): a TypeError thrown while the
\* text fields are built, or the match.
isTextMatch(msg, searchText) ==
    LET searchWords == searchWordsOf(searchText)
        Words == 1..Len(searchWords)
    IN
    IF searchText = <<>> \/ searchWords = <<>> THEN [threw |-> FALSE, match |-> TRUE]
    ELSE IF \E j \in 1..Len(msg.locations) : toStringThrows(msg.locations[j])
    THEN [threw |-> TRUE, match |-> FALSE]
    ELSE
    LET textFields == textFieldsOf(msg)
        Fields == 1..Len(textFields)
        allWordsMatch ==
            \A w \in Words : \E f \in Fields : includes(textFields[f], searchWords[w])
        singleFieldMatch ==
            \E f \in Fields : \A w \in Words : includes(textFields[f], searchWords[w])
        fuzzyMatch ==
            \E w \in Words :
                /\ Len(searchWords[w]) > 3
                /\ \E f \in Fields : fuzzyStringMatch(textFields[f], searchWords[w])
        partialMatch ==
            \E w \in Words :
                /\ Len(searchWords[w]) > 2
                /\ \E f \in Fields :
                       LET fieldWords == splitWhitespace(textFields[f]) IN
                       \E k \in 1..Len(fieldWords) :
                           \/ startsWith(fieldWords[k], searchWords[w])
                           \/ startsWith(searchWords[w], fieldWords[k])
    IN [threw |-> FALSE,
        match |-> allWordsMatch \/ singleFieldMatch \/ fuzzyMatch \/ partialMatch]

-----------------------------------------------------------------------------
(* The aggregation context: the globals refreshMarkers clears and          *)
(* addLocationToMap fills.                                                 *)

NoRegion == -1

EmptyFn == [x \in {} |-> 0]

Put(f, k, v) == [x \in DOMAIN f \cup {k} |-> IF x = k THEN v ELSE f[x]]

Min(S) == CHOOSE x \in S : \A y \in S : x <= y

Ctx ==
    [messageStore |-> messageStore, regionStore |-> regionStore,
     nextMsgId |-> nextMsgId, nextRegionId |-> nextRegionId,
     markerClusterGroup |-> markerClusterGroup,
     rectangleLayerGroup |-> rectangleLayerGroup,
     regionMarkersGroup |-> regionMarkersGroup,
     currentSelectedRegion |-> currentSelectedRegion,
     rectangles |-> rectangles,
     mapHasRectangleLayer |-> mapHasRectangleLayer,
     paintOrder |-> paintOrder,
     calls |-> calls]

\* The context before anything is drawn.
EmptyCtx ==
    [messageStore |-> EmptyFn, regionStore |-> EmptyFn, nextMsgId |-> 0,
     nextRegionId |-> 0, markerClusterGroup |-> <<>>, rectangleLayerGroup |-> <<>>,
     regionMarkersGroup |-> <<>>, currentSelectedRegion |-> NoRegion,
     rectangles |-> EmptyFn, mapHasRectangleLayer |-> FALSE, paintOrder |-> <<>>,
     calls |-> <<>>]

\* Mutant of clearAll: the region counter is not reset.
clearAll_KeepsRegionCounter(c) ==
    [c EXCEPT !.markerClusterGroup = <<>>,
              !.rectangleLayerGroup = <<>>,
              !.regionMarkersGroup = <<>>,
              !.messageStore = EmptyFn,
              !.regionStore = EmptyFn,
              !.nextMsgId = 0,
              !.currentSelectedRegion = NoRegion,
              !.rectangles = EmptyFn,
              !.paintOrder = <<>>,
              !.calls = <<>>]

\* refreshMarkers: the clearing of the layers, stores, counters and selection.
\* The rectangle objects leave with the layer group and the store that held them.
clearAll(c) ==
    [c EXCEPT !.markerClusterGroup = <<>>,
              !.rectangleLayerGroup = <<>>,
              !.regionMarkersGroup = <<>>,
              !.messageStore = EmptyFn,
              !.regionStore = EmptyFn,
              !.nextMsgId = 0,
              !.nextRegionId = 0,
              !.currentSelectedRegion = NoRegion,
              !.rectangles = EmptyFn,
              !.paintOrder = <<>>,
              !.calls = <<>>]

\* Mutant of regionIconFor: the thresholds are exclusive.
regionIconFor_Exclusive(messageCount) ==
    IF messageCount > 10 THEN [color |-> "#dc2626", activityClass |-> "high-activity"]
    ELSE IF messageCount > 5 THEN [color |-> "#f59e0b", activityClass |-> ""]
    ELSE [color |-> "#ff6b35", activityClass |-> ""]

\* The icon updateRegionMarker gives a marker of messageCount messages.
regionIconFor(messageCount) ==
    IF messageCount >= 10 THEN [color |-> "#dc2626", activityClass |-> "high-activity"]
    ELSE IF messageCount >= 5 THEN [color |-> "#f59e0b", activityClass |-> ""]
    ELSE [color |-> "#ff6b35", activityClass |-> ""]

updateRegionMarker(store, regionId) ==
    IF regionId \notin DOMAIN store THEN store
    ELSE LET messageCount == Len(store[regionId].messages) IN
         [store EXCEPT ![regionId].marker =
             [icon |-> regionIconFor(messageCount), tooltipCount |-> messageCount]]

\* Mutants of existingRegionIdFor: the name alone decides; nothing ever matches.
existingRegionIdFor_ByNameAlone(store, coord, locationName) ==
    LET found == {id \in DOMAIN store : store[id].name = locationName}
    IN IF found = {} THEN NoRegion ELSE Min(found)

existingRegionIdFor_NeverFound(store, coord, locationName) == NoRegion

\* Object.keys(regionStore).find(...): the ids in insertion order are the ids in
\* ascending order; NoRegion when no entity has this name and these bounds.
existingRegionIdFor(store, coord, locationName) ==
    LET found == {id \in DOMAIN store :
                     /\ store[id].name = locationName
                     /\ store[id].bounds.north = coord.north
                     /\ store[id].bounds.south = coord.south
                     /\ store[id].bounds.east = coord.east
                     /\ store[id].bounds.west = coord.west}
    IN IF found = {} THEN NoRegion ELSE Min(found)

isBoundingBox(coord) == {"north", "south", "east", "west"} \subseteq coord.has
isPointCoord(coord) == {"lat", "lon"} \subseteq coord.has

\* A new region entity.  center is kept doubled (north + south, east + west):
\* halving is not exact on the integer grid.
newRegion(coord, msg, locationName) ==
    [name |-> locationName,
     bounds |-> [north |-> coord.north, south |-> coord.south,
                 east |-> coord.east, west |-> coord.west],
     messages |-> <<msg>>,
     center |-> <<coord.north + coord.south, coord.east + coord.west>>,
     marker |-> [icon |-> [color |-> "#ff6b35", activityClass |-> ""], tooltipCount |-> 1]]

\* Opacities are in hundredths.
HiddenStyle == [opacity |-> 0, fillOpacity |-> 0]
SelectedStyle == [opacity |-> 80, fillOpacity |-> 15]
ShownStyle == [opacity |-> 80, fillOpacity |-> 20]

\* L.rectangle([[south, west], [north, east]], style): the bounds of a rectangle
\* are the smallest box that holds the two corners.
rectangleOf(coord, style) ==
    [bounds |-> [north |-> Max2(coord.north, coord.south),
                 south |-> Min2(coord.north, coord.south),
                 east |-> Max2(coord.east, coord.west),
                 west |-> Min2(coord.east, coord.west)],
     style |-> style]

\* rectangle.setStyle(style) on every rectangle of ids.
setStyle(rects, ids, style) ==
    [id \in DOMAIN rects |-> IF id \in ids THEN [rects[id] EXCEPT !.style = style]
                             ELSE rects[id]]

addLocationToMap(c, coord, msg, locationName) ==
    LET msgId == c.nextMsgId
        c1 == [c EXCEPT !.nextMsgId = msgId + 1,
                        !.messageStore = Put(c.messageStore, msgId, msg)]
    IN
    IF isBoundingBox(coord) THEN
        LET existingRegionId == existingRegionIdFor(c1.regionStore, coord, locationName) IN
        IF existingRegionId # NoRegion THEN
            [c1 EXCEPT !.regionStore =
                updateRegionMarker(
                    [c1.regionStore EXCEPT ![existingRegionId].messages = Append(@, msg)],
                    existingRegionId)]
        ELSE
            LET regionId == c1.nextRegionId IN
            [c1 EXCEPT !.nextRegionId = regionId + 1,
                       !.regionStore = Put(c1.regionStore, regionId,
                                           newRegion(coord, msg, locationName)),
                       !.regionMarkersGroup = Append(@, regionId),
                       !.rectangles = Put(c1.rectangles, regionId,
                                          rectangleOf(coord, HiddenStyle)),
                       !.rectangleLayerGroup = Append(@, regionId),
                       !.paintOrder = IF c1.mapHasRectangleLayer
                                      THEN Append(@, regionId) ELSE @]
    ELSE IF isPointCoord(coord) THEN
        [c1 EXCEPT !.markerClusterGroup =
            Append(@, [lat |-> coord.lat, lon |-> coord.lon, msgId |-> msgId])]
    ELSE c1

SetCtx(c) ==
    /\ messageStore' = c.messageStore
    /\ regionStore' = c.regionStore
    /\ nextMsgId' = c.nextMsgId
    /\ nextRegionId' = c.nextRegionId
    /\ markerClusterGroup' = c.markerClusterGroup
    /\ rectangleLayerGroup' = c.rectangleLayerGroup
    /\ regionMarkersGroup' = c.regionMarkersGroup
    /\ currentSelectedRegion' = c.currentSelectedRegion
    /\ rectangles' = c.rectangles
    /\ mapHasRectangleLayer' = c.mapHasRectangleLayer
    /\ paintOrder' = c.paintOrder
    /\ calls' = c.calls

-----------------------------------------------------------------------------
(* The cache lookup and one rebuild pass.                                  *)

\* locationCache[locationKey]: undefined for a key the cache does not hold.
lookup(cache, locationKey) ==
    IF locationKey \in DOMAIN cache THEN cache[locationKey] ELSE Undefined

\* typeof location === 'string' and location is truthy
isUsableName(location) == location.t = "string" /\ location.s # <<>>

\* The branch the rebuild ends in for a usable name of key locationKey: the
\* branches of refreshMarkers on the looked-up value and, for a truthy value,
\* of addLocationToMap.
lookupOutcome(cache, locationKey) ==
    LET coord == lookup(cache, locationKey) IN
    IF Truthy(coord)
    THEN IF isBoundingBox(coord) THEN "Region"
         ELSE IF isPointCoord(coord) THEN "Point"
         ELSE "InvalidFormat"
    ELSE IF coord.t = "null" THEN "Unresolved"
    ELSE "NotFound"

\* Mutant of processLocation: a location that is null in the cache still takes
\* a message id.
processLocation_NullTakesId(c, cache, msg, location) ==
    IF ~isUsableName(location) THEN c
    ELSE LET locationKey == locationKeyOf(location.s) IN
         IF locationKey = <<>> THEN c
         ELSE LET coord == lookup(cache, locationKey) IN
              IF Truthy(coord)
              THEN [addLocationToMap(c, coord, msg, location.s) EXCEPT
                       !.calls = Append(c.calls,
                           [coord |-> coord, msg |-> msg, locationName |-> location.s])]
              ELSE IF coord.t = "null"
              THEN [c EXCEPT !.nextMsgId = @ + 1,
                             !.messageStore = Put(c.messageStore, c.nextMsgId, msg)]
              ELSE c

\* The body of msg.locations.forEach in refreshMarkers, for one location.
processLocation(c, cache, msg, location) ==
    IF ~isUsableName(location) THEN c
    ELSE LET locationKey == locationKeyOf(location.s) IN
         IF locationKey = <<>> THEN c
         ELSE LET coord == lookup(cache, locationKey) IN
              IF Truthy(coord)
              THEN [addLocationToMap(c, coord, msg, location.s) EXCEPT
                       !.calls = Append(c.calls,
                           [coord |-> coord, msg |-> msg, locationName |-> location.s])]
              ELSE c

RECURSIVE processLocations(_, _, _, _)
processLocations(c, cache, msg, locations) ==
    IF locations = <<>> THEN c
    ELSE processLocations(processLocation(c, cache, msg, Head(locations)),
                          cache, msg, Tail(locations))

RECURSIVE processMessages(_, _, _)
processMessages(c, cache, messages) ==
    IF messages = <<>> THEN c
    ELSE processMessages(
             processLocations(c, cache, Head(messages), Head(messages).locations),
             cache, Tail(messages))

refreshMarkers(c, cache, messages) == processMessages(clearAll(c), cache, messages)

-----------------------------------------------------------------------------
(* Sorting newest first, as Array.prototype.sort does with the comparator  *)
(* new Date(b.date) - new Date(a.date): stable.                            *)

\* A sort that puts a message before the earlier messages of its date.
RECURSIVE insertByDate_TiesReversed(_, _)
insertByDate_TiesReversed(sorted, msg) ==
    IF sorted = <<>> THEN <<msg>>
    ELSE IF Head(sorted).date > msg.date
         THEN <<Head(sorted)>> \o insertByDate_TiesReversed(Tail(sorted), msg)
         ELSE <<msg>> \o sorted

RECURSIVE insertByDate(_, _)
insertByDate(sorted, msg) ==
    IF sorted = <<>> THEN <<msg>>
    ELSE IF Head(sorted).date >= msg.date
         THEN <<Head(sorted)>> \o insertByDate(Tail(sorted), msg)
         ELSE <<msg>> \o sorted

RECURSIVE sortNewestFirst(_)
sortNewestFirst(messages) ==
    IF messages = <<>> THEN <<>>
    ELSE insertByDate(sortNewestFirst(SubSeq(messages, 1, Len(messages) - 1)),
                      messages[Len(messages)])

-----------------------------------------------------------------------------
(* The spatial query.                                                      *)

\* A test that leaves the boundary of the bounds out.
isLocationInBounds_Strict(coord, bounds) ==
    IF isPointCoord(coord)
    THEN /\ coord.lat > bounds.south /\ coord.lat < bounds.north
         /\ coord.lon > bounds.west /\ coord.lon < bounds.east
    ELSE IF isBoundingBox(coord)
    THEN ~(\/ coord.south >= bounds.north \/ coord.north <= bounds.south
           \/ coord.west >= bounds.east \/ coord.east <= bounds.west)
    ELSE FALSE

\* The branch each function takes for a cache value: the conditions in the
\* order the function tests them.
addLocationToMap_kind(coord) ==
    IF isBoundingBox(coord) THEN "Region"
    ELSE IF isPointCoord(coord) THEN "Point"
    ELSE "Invalid"

goToLocation_kind(coord) ==
    IF isBoundingBox(coord) THEN "Region"
    ELSE IF isPointCoord(coord) THEN "Point"
    ELSE "Invalid"

isLocationInBounds_kind(coord) ==
    IF isPointCoord(coord) THEN "Point"
    ELSE IF isBoundingBox(coord) THEN "Region"
    ELSE "Invalid"

isLocationInBounds(coord, bounds) ==
    IF isPointCoord(coord)
    THEN /\ coord.lat >= bounds.south /\ coord.lat <= bounds.north
         /\ coord.lon >= bounds.west /\ coord.lon <= bounds.east
    ELSE IF isBoundingBox(coord)
    THEN ~(\/ coord.south > bounds.north \/ coord.north < bounds.south
           \/ coord.west > bounds.east \/ coord.east < bounds.west)
    ELSE FALSE

\* The id of a message that carries none (msg.id is undefined).
NoId == -1

\* msg.id || `${msg.text}_${msg.date}_${msg.channel}`: undefined and 0 are falsy.
messageIdOf(msg) ==
    IF msg.id # NoId /\ msg.id # 0
    THEN [id |-> msg.id, text |-> <<>>, date |-> 0, channel |-> <<>>]
    ELSE [id |-> 0, text |-> msg.text, date |-> msg.date, channel |-> msg.channel]

\* One location of one message in findMessagesInRegion.  q is the state of the
\* query: the messages collected, the ids added, messageIncluded, and whether a
\* TypeError has been thrown (location.trim() of a value that is no string).
findInLocation(q, cache, regionBounds, msg, location) ==
    IF q.threw \/ q.messageIncluded THEN q
    ELSE IF location.t # "string" THEN [q EXCEPT !.threw = TRUE]
    ELSE LET coord == lookup(cache, locationKeyOf(location.s)) IN
         IF ~Truthy(coord) THEN q
         ELSE IF isLocationInBounds(coord, regionBounds)
                 /\ messageIdOf(msg) \notin q.addedMessages
         THEN [q EXCEPT !.messagesInRegion = Append(@, msg),
                        !.addedMessages = @ \cup {messageIdOf(msg)},
                        !.messageIncluded = TRUE]
         ELSE q

RECURSIVE findInLocations(_, _, _, _, _)
findInLocations(q, cache, regionBounds, msg, locations) ==
    IF locations = <<>> THEN q
    ELSE findInLocations(findInLocation(q, cache, regionBounds, msg, Head(locations)),
                         cache, regionBounds, msg, Tail(locations))

RECURSIVE findInMessages(_, _, _, _)
findInMessages(q, cache, regionBounds, messages) ==
    IF messages = <<>> THEN q
    ELSE findInMessages(
             findInLocations([q EXCEPT !.messageIncluded = FALSE], cache, regionBounds,
                             Head(messages), Head(messages).locations),
             cache, regionBounds, Tail(messages))

\* The outcome of findMessagesInRegion(regionBounds) over the messages `all`:
\* threw, or the sorted result.
findMessagesInRegion(all, cache, regionBounds) ==
    LET q == findInMessages([messagesInRegion |-> <<>>, addedMessages |-> {},
                             messageIncluded |-> FALSE, threw |-> FALSE],
                            cache, regionBounds, all)
    IN [threw |-> q.threw,
        result |-> IF q.threw THEN <<>> ELSE sortNewestFirst(q.messagesInRegion)]


-----------------------------------------------------------------------------
(* The data the model is run on.                                           *)

\* Bounding boxes: Outer contains Inner, Shifted differs from Outer in west
\* alone, Far is disjoint from the others, Inverted has north < south; Wide,
\* Middle and Flat have spans on the two sides of the span thresholds.
Outer == Region(4, 0, 4, 0)
Inner == Region(3, 1, 3, 1)
Shifted == Region(4, 0, 4, 1)
Far == Region(8, 6, 8, 6)
Inverted == Region(0, 4, 4, 0)
Wide == Region(12, 0, 12, 0)
Middle == Region(6, 0, 6, 0)
Flat == Region(2, 2, 5, 1)
Inside == Point(2, 2)
Outside == Point(9, 9)
OutsidePointWithOuterBox == PointAndRegion(9, 9, 4, 0, 4, 0)

Message(id, date, text, channel, locations) ==
    [id |-> id, date |-> date, text |-> text, cleaned_text |-> text,
     channel |-> channel, locations |-> locations]

\* The messages a loaded collection is made of.  Locations "a", "A" and " a "
\* share the key "a"; "c" is in no cache; the third and fourth message carry no
\* id and share text, date and channel; the first and last share an id.
MessagePool ==
    {Message(1, 1, <<"x">>, <<"p">>, <<Str(<<"a">>)>>),
     Message(2, 2, <<"y">>, <<"p">>, <<Str(<<"A">>), Str(<<"b">>)>>),
     Message(NoId, 2, <<"z">>, <<"q">>, <<Str(<<" ", "a", " ">>), JNull, Str(<<"b">>)>>),
     Message(NoId, 2, <<"z">>, <<"q">>, <<Str(<<"d">>), Str(<<>>), Str(<<"a">>)>>),
     Message(3, 3, <<"x">>, <<"q">>, <<Num(7), Str(<<"c">>), Str(<<" ">>), Str(<<"a">>)>>),
     Message(4, 1, <<"y">>, <<"q">>, <<>>),
     Message(1, 3, <<"z">>, <<"p">>, <<Str(<<"b">>), Str(<<"a">>)>>)}

\* The collections the source may supply to the two variants.
MessageCollections ==
    UNION {[1..n -> MessagePool] : n \in 0..MaxMessages}
ScriptMessageCollections ==
    UNION {[1..n -> MessagePool] : n \in 0..MaxScriptMessages}

Entry(key, value) == [key |-> key, value |-> value]

\* The raw caches the source may supply, as the entries of the JSON object in
\* order.
RawCaches ==
    {<<>>,
     <<Entry(<<"a">>, Outer), Entry(<<"b">>, Inside), Entry(<<"d">>, CacheNull)>>,
     <<Entry(<<"A">>, Outer), Entry(<<"a">>, Inner), Entry(<<" ", "B">>, Outside)>>,
     <<Entry(<<"a">>, Inverted), Entry(<<"b">>, Inner), Entry(<<"d">>, EmptyObject)>>,
     <<Entry(<<"a">>, OutsidePointWithOuterBox), Entry(<<"b">>, Outer),
       Entry(<<"d">>, CacheFalse)>>,
     <<Entry(<<"a">>, Outer), Entry(<<"b">>, Outer), Entry(<<"d">>, Far)>>,
     <<Entry(<<"A", " ">>, Inner), Entry(<<"b">>, Outside), Entry(<<"d">>, Inside)>>,
     <<Entry(<<"a">>, Wide), Entry(<<"b">>, Middle), Entry(<<"d">>, Flat)>>}

\* The values of the date inputs: InvalidDate is new Date('') (every comparison
\* with it is false); the others are timestamps.
InvalidDate == 0
DateInputs == {InvalidDate, 1, 2, 3}

-----------------------------------------------------------------------------
(* The region variant (src/unnamed/part_000).                              *)

InitialZoom == 8

\* The inputs of the events view before anything is entered: events-start-date,
\* events-end-date, events-search-text and events-channel-filter.  InvalidDate
\* is the empty date input.
EmptyEventsInputs ==
    [startDate |-> InvalidDate, endDate |-> InvalidDate, searchText |-> <<>>,
     channel |-> <<>>]

\* initEventsDateFilterInputs(messages): the two date inputs take the earliest
\* and the latest date of the messages, if there are any.
initEventsDateFilterInputs(inputs, messages) ==
    IF messages = <<>> THEN inputs
    ELSE LET dates == {messages[i].date : i \in 1..Len(messages)} IN
         [inputs EXCEPT !.startDate = CHOOSE d \in dates : \A e \in dates : d <= e,
                        !.endDate = CHOOSE d \in dates : \A e \in dates : d >= e]
InitialViewport == [latSpan |-> 40, lonSpan |-> 40]

Init ==
    /\ allMessages = <<>>
    /\ locationCache = EmptyFn
    /\ rawLocationCache = <<>>
    /\ messageStore = EmptyFn
    /\ regionStore = EmptyFn
    /\ nextMsgId = 0
    /\ nextRegionId = 0
    /\ markerClusterGroup = <<>>
    /\ rectangleLayerGroup = <<>>
    /\ regionMarkersGroup = <<>>
    /\ currentSelectedRegion = NoRegion
    /\ filteredEventsMessages = <<>>
    /\ rectangles = EmptyFn
    /\ mapHasMarkerLayer = FALSE
    /\ mapHasRegionMarkers = FALSE
    /\ mapHasRectangleLayer = FALSE
    /\ paintOrder = <<>>
    /\ currentZoom = InitialZoom
    /\ viewport = InitialViewport
    /\ details = [open |-> FALSE, messages |-> <<>>]
    /\ phase = "start"
    /\ lastMessages = <<>>
    /\ calls = <<>>
    /\ currentView = "map"
    /\ loadErrorAlerts = 0
    /\ eventsInputs = EmptyEventsInputs

\* initMap's normalization of the cache keys: a later raw key replaces an
\* earlier one with the same normalized key.
RECURSIVE normalizeCacheKeys(_, _)
normalizeCacheKeys(cache, raw) ==
    IF raw = <<>> THEN cache
    ELSE normalizeCacheKeys(
             Put(cache, locationKeyOf(Head(raw).key), Head(raw).value), Tail(raw))

\* loc.trim() is applied to every location of every message in initMap's
\* logging of the mentioned locations: a TypeError for a value that is no string.
mentionedLocationsThrow(messages) ==
    \E i \in 1..Len(messages) :
        \E j \in 1..Len(messages[i].locations) : messages[i].locations[j].t # "string"

\* initMap with both responses ok, for the collections and caches the source
\* may supply.  The TypeError of the logging is caught by initMap's catch: the
\* markers and the events data are then never set up.
initMapOf(collections, caches) ==
    /\ phase = "start"
    /\ \E loaded \in collections, raw \in caches :
        LET cache == normalizeCacheKeys(EmptyFn, raw) IN
        /\ allMessages' = loaded
        /\ rawLocationCache' = raw
        /\ locationCache' = cache
        /\ IF mentionedLocationsThrow(loaded)
           THEN /\ loadErrorAlerts' = loadErrorAlerts + 1
                /\ UNCHANGED <<eventsInputs, messageStore, regionStore, nextMsgId, nextRegionId,
                               markerClusterGroup, rectangleLayerGroup,
                               regionMarkersGroup, currentSelectedRegion, rectangles,
                               mapHasRectangleLayer, paintOrder, calls,
                               filteredEventsMessages, lastMessages>>
           ELSE /\ SetCtx(refreshMarkers(Ctx, cache, loaded))
                /\ lastMessages' = loaded
                /\ filteredEventsMessages' = sortNewestFirst(loaded)
                /\ eventsInputs' = initEventsDateFilterInputs(eventsInputs, loaded)
                /\ UNCHANGED loadErrorAlerts
    /\ mapHasMarkerLayer' = TRUE
    /\ mapHasRegionMarkers' = TRUE
    /\ phase' = "ready"
    /\ UNCHANGED <<currentView, currentZoom, viewport, details>>

initMap == initMapOf(MessageCollections, RawCaches)

\* initMap with a failing load: a response that is not ok or a body of the
\* messages that does not parse leaves the globals as they are; a body of the
\* cache that does not parse comes after the messages are assigned.  The catch
\* raises the alert, and the listeners are set up all the same.
initMapFailsOf(collections) ==
    /\ phase = "start"
    /\ \/ UNCHANGED allMessages
       \/ allMessages' \in collections
    /\ loadErrorAlerts' = loadErrorAlerts + 1
    /\ mapHasMarkerLayer' = TRUE
    /\ mapHasRegionMarkers' = TRUE
    /\ phase' = "ready"
    /\ UNCHANGED <<locationCache, rawLocationCache, messageStore, regionStore,
                   nextMsgId, nextRegionId, markerClusterGroup, rectangleLayerGroup,
                   regionMarkersGroup, currentSelectedRegion, filteredEventsMessages,
                   rectangles, mapHasRectangleLayer, paintOrder, currentZoom, viewport,
                   details, lastMessages, calls, currentView, eventsInputs>>

initMapFails == initMapFailsOf(MessageCollections)

\* The messages onFilterChange keeps; a comparison with an invalid date is false.
filterByDate(messages, startDate, endDate) ==
    LET passes(m) == /\ startDate # InvalidDate /\ endDate # InvalidDate
                     /\ m.date >= startDate /\ m.date <= endDate
    IN SelectSeq(messages, passes)

\* onFilterChange with the two date inputs holding startDate and endDate.
onFilterChange ==
    /\ phase = "ready"
    /\ \E startDate \in DateInputs, endDate \in DateInputs :
        /\ ~(startDate # InvalidDate /\ endDate # InvalidDate /\ startDate > endDate)
        /\ LET filtered == filterByDate(allMessages, startDate, endDate)
           IN /\ SetCtx(refreshMarkers(Ctx, locationCache, filtered))
              /\ lastMessages' = filtered
    /\ UNCHANGED <<currentView, loadErrorAlerts, eventsInputs,
                   allMessages, locationCache, rawLocationCache, filteredEventsMessages,
                   mapHasMarkerLayer, mapHasRegionMarkers, currentZoom, viewport,
                   details, phase>>

\* The click listener of the clear-filter button.
clearFilter ==
    /\ phase = "ready"
    /\ SetCtx(refreshMarkers(Ctx, locationCache, allMessages))
    /\ lastMessages' = allMessages
    /\ UNCHANGED <<currentView, loadErrorAlerts, eventsInputs,
                   allMessages, locationCache, rawLocationCache, filteredEventsMessages,
                   mapHasMarkerLayer, mapHasRegionMarkers, currentZoom, viewport,
                   details, phase>>

\* messagesInRegion.slice(0, 20)
firstTwenty(messages) == SubSeq(messages, 1, Min2(20, Len(messages)))

\* The location links of the listed messages: location.trim() of every location.
locationLinksThrow(messages) == mentionedLocationsThrow(firstTwenty(messages))

\* map.addLayer(rectangleLayerGroup): the rectangles of the group are drawn in
\* the order of the group, unless the group is on the map already.
paintOrderWithLayer == IF mapHasRectangleLayer THEN paintOrder ELSE rectangleLayerGroup

\* A click on the marker of region regionId.  A TypeError leaves the handler
\* after the rectangle styles and the selection are set and before the panel is.
showRegionDetails ==
    /\ phase = "ready"
    /\ mapHasRegionMarkers
    /\ \E regionId \in DOMAIN regionStore :
        LET found == findMessagesInRegion(allMessages, locationCache,
                                          regionStore[regionId].bounds)
        IN /\ mapHasRectangleLayer' = TRUE
           /\ paintOrder' = paintOrderWithLayer
           /\ rectangles' = setStyle(setStyle(rectangles, DOMAIN regionStore, HiddenStyle),
                                     {regionId}, SelectedStyle)
           /\ currentSelectedRegion' = regionId
           /\ details' = IF found.threw \/ locationLinksThrow(found.result)
                         THEN details
                         ELSE [open |-> TRUE, messages |-> found.result]
    /\ UNCHANGED <<currentView, loadErrorAlerts, eventsInputs,
                   allMessages, locationCache, rawLocationCache, messageStore,
                   regionStore, nextMsgId, nextRegionId, markerClusterGroup,
                   rectangleLayerGroup, regionMarkersGroup, filteredEventsMessages,
                   mapHasMarkerLayer, mapHasRegionMarkers, currentZoom, viewport,
                   phase, lastMessages, calls>>

\* The effect of closeDetails() on the panel, the rectangles and the selection.
\* A closing that hides the rectangles and forgets to reset the selection.
closeDetailsEffect_KeepsSelection ==
    /\ details' = [details EXCEPT !.open = FALSE]
    /\ rectangles' = setStyle(rectangles, DOMAIN regionStore, HiddenStyle)
    /\ UNCHANGED currentSelectedRegion
    /\ mapHasRectangleLayer' = FALSE
    /\ paintOrder' = <<>>

closeDetailsEffect ==
    /\ details' = [details EXCEPT !.open = FALSE]
    /\ rectangles' = setStyle(rectangles, DOMAIN regionStore, HiddenStyle)
    /\ currentSelectedRegion' = NoRegion
    /\ mapHasRectangleLayer' = FALSE
    /\ paintOrder' = <<>>

\* The close button of the details panel.
closeDetails ==
    /\ phase = "ready"
    /\ closeDetailsEffect
    /\ UNCHANGED <<currentView, loadErrorAlerts, eventsInputs,
                   allMessages, locationCache, rawLocationCache, messageStore,
                   regionStore, nextMsgId, nextRegionId, markerClusterGroup,
                   rectangleLayerGroup, regionMarkersGroup, filteredEventsMessages,
                   mapHasMarkerLayer, mapHasRegionMarkers, currentZoom, viewport,
                   phase, lastMessages, calls>>

\* The map's click listener, for a click that is on no marker and no popup,
\* while a region is selected.
mapClick ==
    /\ phase = "ready"
    /\ currentSelectedRegion # NoRegion
    /\ closeDetailsEffect
    /\ UNCHANGED <<currentView, loadErrorAlerts, eventsInputs,
                   allMessages, locationCache, rawLocationCache, messageStore,
                   regionStore, nextMsgId, nextRegionId, markerClusterGroup,
                   rectangleLayerGroup, regionMarkersGroup, filteredEventsMessages,
                   mapHasMarkerLayer, mapHasRegionMarkers, currentZoom, viewport,
                   phase, lastMessages, calls>>

\* onLayerToggle with the two checkboxes holding showMarkers and showRegions.
onLayerToggle ==
    /\ phase = "ready"
    /\ \E showMarkers \in BOOLEAN, showRegions \in BOOLEAN :
        /\ mapHasMarkerLayer' = showMarkers
        /\ mapHasRegionMarkers' = showRegions
        /\ IF showRegions
           THEN /\ mapHasRectangleLayer' = TRUE
                /\ paintOrder' = paintOrderWithLayer
                /\ UNCHANGED <<details, rectangles, currentSelectedRegion>>
           ELSE IF currentSelectedRegion # NoRegion
           THEN closeDetailsEffect
           ELSE /\ mapHasRectangleLayer' = FALSE
                /\ paintOrder' = <<>>
                /\ UNCHANGED <<details, rectangles, currentSelectedRegion>>
    /\ UNCHANGED <<currentView, loadErrorAlerts, eventsInputs,
                   allMessages, locationCache, rawLocationCache, messageStore,
                   regionStore, nextMsgId, nextRegionId, markerClusterGroup,
                   rectangleLayerGroup, regionMarkersGroup, filteredEventsMessages,
                   currentZoom, viewport, phase, lastMessages, calls>>

Next ==
    \/ initMap
    \/ initMapFails
    \/ onFilterChange
    \/ clearFilter
    \/ showRegionDetails
    \/ closeDetails
    \/ mapClick
    \/ onLayerToggle

Spec == Init /\ [][Next]_vars

-----------------------------------------------------------------------------
(* The rectangle variant (src/script.js).                                  *)

script_clearAll(c) ==
    [c EXCEPT !.markerClusterGroup = <<>>,
              !.rectangleLayerGroup = <<>>,
              !.messageStore = EmptyFn,
              !.nextMsgId = 0,
              !.rectangles = EmptyFn,
              !.paintOrder = <<>>,
              !.calls = <<>>]

\* addLocationToMap of script.js: one rectangle for every call with a bounding
\* box; the rectangle takes the number of the message id as its id.
script_addLocationToMap(c, coord, msg, locationName) ==
    LET msgId == c.nextMsgId
        c1 == [c EXCEPT !.nextMsgId = msgId + 1,
                        !.messageStore = Put(c.messageStore, msgId, msg)]
    IN
    IF isBoundingBox(coord) THEN
        [c1 EXCEPT !.rectangles = Put(c1.rectangles, msgId, rectangleOf(coord, ShownStyle)),
                   !.rectangleLayerGroup = Append(@, msgId),
                   !.paintOrder = IF c1.mapHasRectangleLayer THEN Append(@, msgId) ELSE @]
    ELSE IF isPointCoord(coord) THEN
        [c1 EXCEPT !.markerClusterGroup =
            Append(@, [lat |-> coord.lat, lon |-> coord.lon, msgId |-> msgId])]
    ELSE c1

script_processLocation(c, cache, msg, location) ==
    IF ~isUsableName(location) THEN c
    ELSE LET locationKey == locationKeyOf(location.s) IN
         IF locationKey = <<>> THEN c
         ELSE LET coord == lookup(cache, locationKey) IN
              IF Truthy(coord)
              THEN [script_addLocationToMap(c, coord, msg, location.s) EXCEPT
                       !.calls = Append(c.calls,
                           [coord |-> coord, msg |-> msg, locationName |-> location.s])]
              ELSE c

RECURSIVE script_processLocations(_, _, _, _)
script_processLocations(c, cache, msg, locations) ==
    IF locations = <<>> THEN c
    ELSE script_processLocations(script_processLocation(c, cache, msg, Head(locations)),
                                 cache, msg, Tail(locations))

RECURSIVE script_processMessages(_, _, _)
script_processMessages(c, cache, messages) ==
    IF messages = <<>> THEN c
    ELSE script_processMessages(
             script_processLocations(c, cache, Head(messages), Head(messages).locations),
             cache, Tail(messages))

latSpanOf(rectangle) == rectangle.bounds.north - rectangle.bounds.south
lonSpanOf(rectangle) == rectangle.bounds.east - rectangle.bounds.west
areaOf(rectangle) == latSpanOf(rectangle) * lonSpanOf(rectangle)

\* rectanglesWithSize.sort((a, b) => a.area - b.area): stable, ascending.
RECURSIVE insertByArea(_, _, _)
insertByArea(rects, sorted, id) ==
    IF sorted = <<>> THEN <<id>>
    ELSE IF areaOf(rects[Head(sorted)]) <= areaOf(rects[id])
         THEN <<Head(sorted)>> \o insertByArea(rects, Tail(sorted), id)
         ELSE <<id>> \o sorted

RECURSIVE sortByArea(_, _)
sortByArea(rects, ids) ==
    IF ids = <<>> THEN <<>>
    ELSE insertByArea(rects, sortByArea(rects, SubSeq(ids, 1, Len(ids) - 1)), ids[Len(ids)])

\* A rule whose bands include their upper zoom.
shouldShow_BandsInclusive(zoom, view, rectangle) ==
    LET latSpan == rectangle.bounds.north - rectangle.bounds.south
        lonSpan == rectangle.bounds.east - rectangle.bounds.west
        tooSmall == IF zoom <= 9 THEN latSpan < 10 \/ lonSpan < 10
                    ELSE IF zoom <= 11 THEN latSpan < 5 \/ lonSpan < 5
                    ELSE IF zoom <= 13 THEN latSpan < 1 \/ lonSpan < 1
                    ELSE FALSE
        tooBig == IF zoom > 13
                  THEN 10 * latSpan * lonSpan > 4 * view.latSpan * view.lonSpan
                  ELSE IF zoom > 11
                  THEN 10 * latSpan * lonSpan > 6 * view.latSpan * view.lonSpan
                  ELSE FALSE
    IN ~tooSmall /\ ~tooBig

\* shouldShow of updateRegionVisibility.  Spans are in hundredths of a degree:
\* 0.1, 0.05 and 0.01 degrees are 10, 5 and 1.  relativeArea > 0.4 is
\* 10 * area > 4 * (area of the viewport), and likewise for 0.6.
shouldShow(zoom, view, rectangle) ==
    LET latSpan == latSpanOf(rectangle)
        lonSpan == lonSpanOf(rectangle)
        tooSmall == IF zoom < 9 THEN latSpan < 10 \/ lonSpan < 10
                    ELSE IF zoom < 11 THEN latSpan < 5 \/ lonSpan < 5
                    ELSE IF zoom < 13 THEN latSpan < 1 \/ lonSpan < 1
                    ELSE FALSE
        tooBig == IF zoom > 13
                  THEN 10 * latSpan * lonSpan > 4 * view.latSpan * view.lonSpan
                  ELSE IF zoom > 11
                  THEN 10 * latSpan * lonSpan > 6 * view.latSpan * view.lonSpan
                  ELSE FALSE
    IN ~tooSmall /\ ~tooBig

bringToFront(order, id) == SelectSeq(order, LAMBDA other : other # id) \o <<id>>
bringToBack(order, id) == <<id>> \o SelectSeq(order, LAMBDA other : other # id)

\* rectanglesWithSize.forEach((item, index) => ...), from index on.
RECURSIVE applyVisibility(_, _, _, _, _)
applyVisibility(c, zoom, view, sorted, index) ==
    IF index >= Len(sorted) THEN c
    ELSE LET id == sorted[index + 1]
             next == IF shouldShow(zoom, view, c.rectangles[id])
                     THEN [c EXCEPT !.rectangles = setStyle(@, {id}, ShownStyle),
                                    !.paintOrder = IF 2 * index < Len(sorted)
                                                   THEN bringToFront(@, id)
                                                   ELSE bringToBack(@, id)]
                     ELSE [c EXCEPT !.rectangles = setStyle(@, {id}, HiddenStyle)]
         IN applyVisibility(next, zoom, view, sorted, index + 1)

updateRegionVisibility(c, zoom, view) ==
    IF ~c.mapHasRectangleLayer THEN c
    ELSE applyVisibility(c, zoom, view, sortByArea(c.rectangles, c.rectangleLayerGroup), 0)

script_refreshMarkers(c, cache, messages, zoom, view) ==
    updateRegionVisibility(script_processMessages(script_clearAll(c), cache, messages),
                           zoom, view)

\* await cacheRes.json(): the object with the keys as they were supplied.
RECURSIVE parsedCache(_, _)
parsedCache(cache, raw) ==
    IF raw = <<>> THEN cache
    ELSE parsedCache(Put(cache, Head(raw).key, Head(raw).value), Tail(raw))

\* initMap of script.js with both responses ok.
script_initMap ==
    /\ phase = "start"
    /\ \E loaded \in ScriptMessageCollections, raw \in RawCaches :
        LET cache == parsedCache(EmptyFn, raw) IN
        /\ allMessages' = loaded
        /\ rawLocationCache' = raw
        /\ locationCache' = cache
        /\ SetCtx(script_refreshMarkers([Ctx EXCEPT !.mapHasRectangleLayer = TRUE],
                                        cache, loaded, currentZoom, viewport))
        /\ lastMessages' = loaded
        /\ filteredEventsMessages' = sortNewestFirst(loaded)
        /\ eventsInputs' = initEventsDateFilterInputs(eventsInputs, loaded)
    /\ mapHasMarkerLayer' = TRUE
    /\ phase' = "ready"
    /\ UNCHANGED <<currentView, loadErrorAlerts, mapHasRegionMarkers, currentZoom, viewport, details>>

script_onFilterChange ==
    /\ phase = "ready"
    /\ \E startDate \in DateInputs, endDate \in DateInputs :
        /\ ~(startDate # InvalidDate /\ endDate # InvalidDate /\ startDate > endDate)
        /\ LET filtered == filterByDate(allMessages, startDate, endDate)
           IN /\ SetCtx(script_refreshMarkers(Ctx, locationCache, filtered,
                                              currentZoom, viewport))
              /\ lastMessages' = filtered
    /\ UNCHANGED <<currentView, loadErrorAlerts, eventsInputs,
                   allMessages, locationCache, rawLocationCache, filteredEventsMessages,
                   mapHasMarkerLayer, mapHasRegionMarkers, currentZoom, viewport,
                   details, phase>>

script_clearFilter ==
    /\ phase = "ready"
    /\ SetCtx(script_refreshMarkers(Ctx, locationCache, allMessages, currentZoom, viewport))
    /\ lastMessages' = allMessages
    /\ UNCHANGED <<currentView, loadErrorAlerts, eventsInputs,
                   allMessages, locationCache, rawLocationCache, filteredEventsMessages,
                   mapHasMarkerLayer, mapHasRegionMarkers, currentZoom, viewport,
                   details, phase>>

script_onLayerToggle ==
    /\ phase = "ready"
    /\ \E showMarkers \in BOOLEAN, showRegions \in BOOLEAN :
        /\ mapHasMarkerLayer' = showMarkers
        /\ IF showRegions
           THEN SetCtx(updateRegionVisibility(
                           [Ctx EXCEPT !.mapHasRectangleLayer = TRUE,
                                       !.paintOrder = paintOrderWithLayer],
                           currentZoom, viewport))
           ELSE SetCtx([Ctx EXCEPT !.mapHasRectangleLayer = FALSE, !.paintOrder = <<>>])
    /\ UNCHANGED <<currentView, loadErrorAlerts, eventsInputs,
                   allMessages, locationCache, rawLocationCache, filteredEventsMessages,
                   mapHasRegionMarkers, currentZoom, viewport, details, phase,
                   lastMessages>>

\* The zoom levels and viewport spans the map is brought to.
PointZoom == 15
Zooms == {InitialZoom, 10, 11, 12, 13, PointZoom}
Viewports == {InitialViewport, [latSpan |-> 5, lonSpan |-> 5]}

\* The zoomend listener: the zoom has changed to one of zooms, and the viewport
\* with it to one of views.
zoomendTo(zooms, views) ==
    /\ phase = "ready"
    /\ \E zoom \in zooms \ {currentZoom}, view \in views :
        /\ currentZoom' = zoom
        /\ viewport' = view
        /\ SetCtx(updateRegionVisibility(Ctx, zoom, view))
    /\ UNCHANGED <<currentView, loadErrorAlerts, eventsInputs,
                   allMessages, locationCache, rawLocationCache, filteredEventsMessages,
                   mapHasMarkerLayer, mapHasRegionMarkers, details, phase, lastMessages>>

zoomend == zoomendTo(Zooms, Viewports)

\* A pan or a resize: the viewport changes at the same zoom; no listener runs.
viewportChange ==
    /\ phase = "ready"
    /\ \E view \in Viewports \ {viewport} : viewport' = view
    /\ UNCHANGED <<currentView, loadErrorAlerts, eventsInputs,
                   allMessages, locationCache, rawLocationCache, messageStore,
                   regionStore, nextMsgId, nextRegionId, markerClusterGroup,
                   rectangleLayerGroup, regionMarkersGroup, currentSelectedRegion,
                   filteredEventsMessages, rectangles, mapHasMarkerLayer,
                   mapHasRegionMarkers, mapHasRectangleLayer, paintOrder, currentZoom,
                   details, phase, lastMessages, calls>>

\* The names goToLocation is called with.
NavigationNames == {<<"A", " ">>, <<"b">>, <<"c">>}

\* goToLocation(locationName): fitBounds of a bounding box brings the map to a
\* zoom and viewport of the map's choosing, setView of a point to PointZoom;
\* the zoomend listener runs when the zoom has changed.
script_goToLocation ==
    /\ phase = "ready"
    /\ \E locationName \in NavigationNames :
        LET coord == lookup(locationCache, locationKeyOf(locationName)) IN
        /\ Truthy(coord)
        /\ isBoundingBox(coord) \/ isPointCoord(coord)
        /\ \E zoom \in Zooms, view \in Viewports :
            /\ ~isBoundingBox(coord) => zoom = PointZoom
            /\ currentZoom' = zoom
            /\ viewport' = view
            /\ IF zoom # currentZoom
               THEN SetCtx(updateRegionVisibility(Ctx, zoom, view))
               ELSE SetCtx(Ctx)
    /\ UNCHANGED <<currentView, loadErrorAlerts, eventsInputs,
                   allMessages, locationCache, rawLocationCache, filteredEventsMessages,
                   mapHasMarkerLayer, mapHasRegionMarkers, details, phase, lastMessages>>

NextScript ==
    \/ script_initMap
    \/ script_onFilterChange
    \/ script_clearFilter
    \/ script_onLayerToggle
    \/ zoomend
    \/ viewportChange
    \/ script_goToLocation

SpecScript == Init /\ [][NextScript]_vars

-----------------------------------------------------------------------------
(* addLocationToMap on its own: any sequence of calls after a clearing.    *)

IngestCoords == {Outer, Shifted, Inverted, Inside, EmptyObject}
IngestMessages ==
    {Message(1, 1, <<"x">>, <<"p">>, <<>>), Message(2, 2, <<"y">>, <<"p">>, <<>>)}
IngestNames == {<<"a">>, <<"A">>}

ingest(coord, msg, locationName) ==
    SetCtx([addLocationToMap(Ctx, coord, msg, locationName) EXCEPT
               !.calls = Append(calls,
                   [coord |-> coord, msg |-> msg, locationName |-> locationName])])

ingestAny ==
    /\ nextMsgId < MaxIngest
    /\ \E coord \in IngestCoords, msg \in IngestMessages, locationName \in IngestNames :
           ingest(coord, msg, locationName)
    /\ UNCHANGED <<currentView, loadErrorAlerts, eventsInputs,
                   allMessages, locationCache, rawLocationCache, filteredEventsMessages,
                   mapHasMarkerLayer, mapHasRegionMarkers, currentZoom, viewport,
                   details, phase, lastMessages>>

\* refreshMarkers of no messages: the clearing alone.
clearOnly ==
    /\ SetCtx(refreshMarkers(Ctx, locationCache, <<>>))
    /\ UNCHANGED <<currentView, loadErrorAlerts, eventsInputs,
                   allMessages, locationCache, rawLocationCache, filteredEventsMessages,
                   mapHasMarkerLayer, mapHasRegionMarkers, currentZoom, viewport,
                   details, phase, lastMessages>>

NextIngest == ingestAny \/ clearOnly

SpecIngest == Init /\ [][NextIngest]_vars

\* Long runs of calls on two bounding boxes of one name: the message counts
\* reach the tier thresholds.
ingestForTier ==
    /\ nextMsgId < MaxTierIngest
    /\ \E coord \in {Outer, Shifted} :
           ingest(coord, Message(1, 1, <<"x">>, <<"p">>, <<>>), <<"a">>)
    /\ UNCHANGED <<currentView, loadErrorAlerts, eventsInputs,
                   allMessages, locationCache, rawLocationCache, filteredEventsMessages,
                   mapHasMarkerLayer, mapHasRegionMarkers, currentZoom, viewport,
                   details, phase, lastMessages>>

NextTier == ingestForTier \/ clearOnly

SpecTier == Init /\ [][NextTier]_vars


-----------------------------------------------------------------------------
(* findMessagesInRegion on its own: one call on any loaded collection.     *)

\* Messages with string locations: the first two carry the id 0 and differ in
\* text, the next two carry no id and share text, date and channel, the last
\* two share an id; three of them share a date.
QueryMessagePool ==
    {Message(0, 1, <<"x">>, <<"p">>, <<Str(<<"a">>)>>),
     Message(0, 2, <<"y">>, <<"p">>, <<Str(<<"a">>)>>),
     Message(NoId, 2, <<"z">>, <<"q">>, <<Str(<<"a">>), Str(<<"b">>)>>),
     Message(NoId, 2, <<"z">>, <<"q">>, <<Str(<<"b">>)>>),
     Message(5, 3, <<"x">>, <<"q">>, <<Str(<<"c">>), Str(<<"A", " ">>)>>),
     Message(5, 1, <<"y">>, <<"p">>, <<Str(<<"b">>)>>)}

QueryMessageCollections ==
    UNION {[1..n -> QueryMessagePool] : n \in 0..MaxQueryMessages}

\* A box that meets Outer and Far in one corner each, a point on the north
\* edge of Outer, and a region with a point in it and a point south of it.
Corner == Region(6, 4, 6, 4)
OnEdge == Point(4, 2)
Province == Region(3200, 3100, 3500, 3400)
InProvince == Point(3150, 3450)
SouthOfProvince == Point(3000, 3450)

QueryCaches ==
    {normalizeCacheKeys(EmptyFn, <<Entry(<<"a">>, Outer), Entry(<<"b">>, Inside)>>),
     normalizeCacheKeys(EmptyFn, <<Entry(<<"a">>, Far), Entry(<<"b">>, Inner)>>),
     normalizeCacheKeys(EmptyFn, <<Entry(<<"a">>, Inside), Entry(<<"b">>, Outside)>>),
     normalizeCacheKeys(EmptyFn, <<Entry(<<"a">>, Corner), Entry(<<"b">>, OnEdge)>>),
     normalizeCacheKeys(EmptyFn, <<Entry(<<"a">>, InProvince),
                                   Entry(<<"b">>, SouthOfProvince)>>)}

\* The bounds findMessagesInRegion is called with.
QueryBounds == {Outer, Inner, Far, Province}

InitQuery ==
    /\ allMessages \in QueryMessageCollections
    /\ locationCache \in QueryCaches
    /\ rawLocationCache = <<>>
    /\ messageStore = EmptyFn
    /\ regionStore = EmptyFn
    /\ nextMsgId = 0
    /\ nextRegionId = 0
    /\ markerClusterGroup = <<>>
    /\ rectangleLayerGroup = <<>>
    /\ regionMarkersGroup = <<>>
    /\ currentSelectedRegion = NoRegion
    /\ filteredEventsMessages = <<>>
    /\ rectangles = EmptyFn
    /\ mapHasMarkerLayer = TRUE
    /\ mapHasRegionMarkers = TRUE
    /\ mapHasRectangleLayer = FALSE
    /\ paintOrder = <<>>
    /\ currentZoom = InitialZoom
    /\ viewport = InitialViewport
    /\ details = [open |-> FALSE, messages |-> <<>>, bounds |-> Outer]
    /\ phase = "ready"
    /\ lastMessages = <<>>
    /\ calls = <<>>
    /\ currentView = "map"
    /\ loadErrorAlerts = 0
    /\ eventsInputs = EmptyEventsInputs

\* One call of findMessagesInRegion(regionBounds); details keeps what it
\* returned and the bounds it was called with.
findInRegion ==
    /\ \E regionBounds \in QueryBounds :
        LET found == findMessagesInRegion(allMessages, locationCache, regionBounds) IN
        /\ ~found.threw
        /\ details' = [open |-> TRUE, messages |-> found.result, bounds |-> regionBounds]
    /\ UNCHANGED <<currentView, loadErrorAlerts, eventsInputs,
                   allMessages, locationCache, rawLocationCache, messageStore,
                   regionStore, nextMsgId, nextRegionId, markerClusterGroup,
                   rectangleLayerGroup, regionMarkersGroup, currentSelectedRegion,
                   filteredEventsMessages, rectangles, mapHasMarkerLayer,
                   mapHasRegionMarkers, mapHasRectangleLayer, paintOrder, currentZoom,
                   viewport, phase, lastMessages, calls>>

NextQuery == findInRegion

SpecQuery == InitQuery /\ [][NextQuery]_vars

-----------------------------------------------------------------------------
(* updateRegionVisibility on its own: the map of script.js after initMap has *)
(* drawn the boxes of one message, then zoomed and toggled.                 *)

\* The boxes drawn: spans of 0, 2, 3, 4, 6 and 12 hundredths of a degree.
PlannerBoxes == {Flat, Inner, Shifted, Middle, Wide}
PlannerNames == <<<<"a">>, <<"b">>, <<"d">>, <<"e">>>>
PlannerBoxLists == UNION {[1..n -> PlannerBoxes] : n \in 0..MaxShapes}

\* Every zoom level from the initial one to the first above all thresholds.
PlannerZooms == InitialZoom..14
\* Shifted covers half of the second viewport and Middle more than all of it.
PlannerViewports == {InitialViewport, [latSpan |-> 4, lonSpan |-> 6]}

PlannerCache(boxes) ==
    parsedCache(EmptyFn, [i \in 1..Len(boxes) |-> Entry(PlannerNames[i], boxes[i])])
PlannerMessages(boxes) ==
    <<Message(1, 1, <<"x">>, <<"p">>, [i \in 1..Len(boxes) |-> Str(PlannerNames[i])])>>

InitPlanner ==
    \E boxes \in PlannerBoxLists :
        LET c == script_refreshMarkers([EmptyCtx EXCEPT !.mapHasRectangleLayer = TRUE],
                                       PlannerCache(boxes), PlannerMessages(boxes),
                                       InitialZoom, InitialViewport)
        IN
        /\ allMessages = PlannerMessages(boxes)
        /\ locationCache = PlannerCache(boxes)
        /\ rawLocationCache = <<>>
        /\ messageStore = c.messageStore
        /\ regionStore = c.regionStore
        /\ nextMsgId = c.nextMsgId
        /\ nextRegionId = c.nextRegionId
        /\ markerClusterGroup = c.markerClusterGroup
        /\ rectangleLayerGroup = c.rectangleLayerGroup
        /\ regionMarkersGroup = c.regionMarkersGroup
        /\ currentSelectedRegion = c.currentSelectedRegion
        /\ filteredEventsMessages = PlannerMessages(boxes)
        /\ rectangles = c.rectangles
        /\ mapHasMarkerLayer = TRUE
        /\ mapHasRegionMarkers = FALSE
        /\ mapHasRectangleLayer = c.mapHasRectangleLayer
        /\ paintOrder = c.paintOrder
        /\ currentZoom = InitialZoom
        /\ viewport = InitialViewport
        /\ details = [open |-> FALSE, messages |-> <<>>]
        /\ phase = "ready"
        /\ lastMessages = PlannerMessages(boxes)
        /\ calls = c.calls
        /\ currentView = "map"
        /\ loadErrorAlerts = 0
        /\ eventsInputs = EmptyEventsInputs

planner_zoomend == zoomendTo(PlannerZooms, PlannerViewports)

NextPlanner ==
    \/ planner_zoomend
    \/ script_onLayerToggle

SpecPlanner == InitPlanner /\ [][NextPlanner]_vars

-----------------------------------------------------------------------------
(* isTextMatch on its own: one call for every message of a collection.     *)

\* Messages with a location "Gaza City", the text "north gate", punctuation in
\* text and location, an empty channel and a number among the locations, and
\* a null among the locations.
SearchMessagePool ==
    {Message(1, 1, <<"x">>, <<"p">>, <<Str(<<"G", "a", "z", "a", " ", "C", "i", "t", "y">>)>>),
     Message(2, 2, <<"n", "o", "r", "t", "h", " ", "g", "a", "t", "e">>, <<"x">>, <<>>),
     Message(3, 3, <<"x", "!">>, <<"q">>, <<Str(<<"a", "-", "b">>)>>),
     Message(4, 1, <<"k", "i", "t", "t", "e", "n">>, <<>>, <<Num(7)>>),
     Message(5, 2, <<"x">>, <<"p">>, <<JNull, Str(<<"b">>)>>)}

SearchMessageCollections ==
    UNION {[1..n -> SearchMessagePool] : n \in 0..MaxSearchMessages}

\* The search texts isTextMatch is called with.
SearchQueries ==
    {<<>>, <<" ">>, <<"g", "a", "z", "a">>, <<"n", "o", "r", "t", " ", "g", "a", "t", "e">>, <<"x", "!">>, <<"X">>, <<"k", "i", "t", "t", "e", "n", "s">>,
     <<"g", "a", "t", "e", " ", "x">>, <<"q", "q">>, <<"z", "z", "z", "z">>, <<"a", "-", "b">>}

InitSearch ==
    /\ allMessages \in SearchMessageCollections
    /\ locationCache = EmptyFn
    /\ rawLocationCache = <<>>
    /\ messageStore = EmptyFn
    /\ regionStore = EmptyFn
    /\ nextMsgId = 0
    /\ nextRegionId = 0
    /\ markerClusterGroup = <<>>
    /\ rectangleLayerGroup = <<>>
    /\ regionMarkersGroup = <<>>
    /\ currentSelectedRegion = NoRegion
    /\ filteredEventsMessages = allMessages
    /\ rectangles = EmptyFn
    /\ mapHasMarkerLayer = TRUE
    /\ mapHasRegionMarkers = TRUE
    /\ mapHasRectangleLayer = FALSE
    /\ paintOrder = <<>>
    /\ currentZoom = InitialZoom
    /\ viewport = InitialViewport
    /\ details = [open |-> FALSE, searchText |-> <<>>, outcomes |-> <<>>]
    /\ phase = "ready"
    /\ lastMessages = <<>>
    /\ calls = <<>>
    /\ currentView = "map"
    /\ loadErrorAlerts = 0
    /\ eventsInputs = EmptyEventsInputs

\* isTextMatch(msg, searchText) for every message of the collection; details
\* keeps the search text and the outcome for every message.
textMatch ==
    /\ \E searchText \in SearchQueries :
        details' = [open |-> TRUE, searchText |-> searchText,
                    outcomes |-> [i \in 1..Len(allMessages) |->
                                     isTextMatch(allMessages[i], searchText)]]
    /\ UNCHANGED <<currentView, loadErrorAlerts, eventsInputs,
                   allMessages, locationCache, rawLocationCache, messageStore,
                   regionStore, nextMsgId, nextRegionId, markerClusterGroup,
                   rectangleLayerGroup, regionMarkersGroup, currentSelectedRegion,
                   filteredEventsMessages, rectangles, mapHasMarkerLayer,
                   mapHasRegionMarkers, mapHasRectangleLayer, paintOrder, currentZoom,
                   viewport, phase, lastMessages, calls>>

NextSearch == textMatch

SpecSearch == InitSearch /\ [][NextSearch]_vars

-----------------------------------------------------------------------------
(* The events view of the region variant: load, filter, clear, switch.     *)

\* Messages of two dates, channels and texts, and one with a null location.
EventMessagePool ==
    {Message(1, 1, <<"x">>, <<"p">>, <<Str(<<"a">>)>>),
     Message(2, 3, <<"q", "q">>, <<"x">>, <<>>),
     Message(5, 2, <<"x">>, <<"p">>, <<JNull, Str(<<"b">>)>>)}

EventMessageCollections ==
    UNION {[1..n -> EventMessagePool] : n \in 0..MaxEventMessages}

\* The values entered in the inputs of the events view.
EventDateInputs == {InvalidDate, 1, 3}
EventSearchInputs == {<<>>, <<" ">>, <<" ", "X">>}
EventChannelInputs == {<<>>, <<"p">>}

events_initMap == initMapOf(EventMessageCollections, {<<>>})
events_initMapFails == initMapFailsOf(EventMessageCollections)

\* The date range of applyEventsFilters: none without a date input, the day of
\* the one input given, or the days from the first input to the second.  A
\* timestamp is the number of its day.
eventsDateRange(startDateInput, endDateInput) ==
    IF startDateInput = InvalidDate /\ endDateInput = InvalidDate
    THEN [given |-> FALSE, startDate |-> 0, endDate |-> 0]
    ELSE IF endDateInput = InvalidDate
    THEN [given |-> TRUE, startDate |-> startDateInput, endDate |-> startDateInput]
    ELSE IF startDateInput = InvalidDate
    THEN [given |-> TRUE, startDate |-> endDateInput, endDate |-> endDateInput]
    ELSE [given |-> TRUE, startDate |-> startDateInput, endDate |-> endDateInput]

passesDateFilter(msg, range) ==
    range.given => (msg.date >= range.startDate /\ msg.date <= range.endDate)

passesChannelFilter(msg, selectedChannel) ==
    selectedChannel = <<>> \/ msg.channel = selectedChannel

\* !searchText || isTextMatch(msg, searchText)
passesTextFilter(msg, searchText) ==
    IF searchText = <<>> THEN [threw |-> FALSE, match |-> TRUE]
    ELSE isTextMatch(msg, searchText)

\* applyEventsFilters, run when an input of the events view changes: an
\* inverted range raises an alert and returns, a TypeError of isTextMatch ends
\* the handler before filteredEventsMessages is assigned.
applyEventsFilters ==
    /\ phase = "ready"
    /\ \E startDateInput \in EventDateInputs, endDateInput \in EventDateInputs,
          searchInput \in EventSearchInputs, selectedChannel \in EventChannelInputs :
        LET searchText == trim(toLowerCase(searchInput))
            range == eventsDateRange(startDateInput, endDateInput)
            passes(msg) == /\ passesDateFilter(msg, range)
                           /\ passesTextFilter(msg, searchText).match
                           /\ passesChannelFilter(msg, selectedChannel)
        IN
        /\ eventsInputs' = [startDate |-> startDateInput, endDate |-> endDateInput,
                            searchText |-> searchInput, channel |-> selectedChannel]
        /\ IF \/ range.given /\ range.startDate > range.endDate
              \/ \E i \in 1..Len(allMessages) :
                     passesTextFilter(allMessages[i], searchText).threw
           THEN UNCHANGED filteredEventsMessages
           ELSE filteredEventsMessages' = SelectSeq(allMessages, passes)
    /\ UNCHANGED <<allMessages, locationCache, rawLocationCache, messageStore,
                   regionStore, nextMsgId, nextRegionId, markerClusterGroup,
                   rectangleLayerGroup, regionMarkersGroup, currentSelectedRegion,
                   rectangles, mapHasMarkerLayer, mapHasRegionMarkers,
                   mapHasRectangleLayer, paintOrder, currentZoom, viewport, details,
                   phase, lastMessages, calls, currentView, loadErrorAlerts>>

clearEventsFilters ==
    /\ phase = "ready"
    /\ eventsInputs' = [initEventsDateFilterInputs(eventsInputs, allMessages) EXCEPT
                           !.searchText = <<>>, !.channel = <<>>]
    /\ filteredEventsMessages' = sortNewestFirst(allMessages)
    /\ UNCHANGED <<allMessages, locationCache, rawLocationCache, messageStore,
                   regionStore, nextMsgId, nextRegionId, markerClusterGroup,
                   rectangleLayerGroup, regionMarkersGroup, currentSelectedRegion,
                   rectangles, mapHasMarkerLayer, mapHasRegionMarkers,
                   mapHasRectangleLayer, paintOrder, currentZoom, viewport, details,
                   phase, lastMessages, calls, currentView, loadErrorAlerts>>

toggleView ==
    /\ phase = "ready"
    /\ LET newView == IF currentView = "map" THEN "events" ELSE "map" IN
        /\ currentView' = newView
        /\ IF newView = "events" /\ Len(filteredEventsMessages) = 0 /\ Len(allMessages) > 0
           THEN filteredEventsMessages' = sortNewestFirst(allMessages)
           ELSE UNCHANGED filteredEventsMessages
    /\ UNCHANGED <<allMessages, locationCache, rawLocationCache, messageStore,
                   regionStore, nextMsgId, nextRegionId, markerClusterGroup,
                   rectangleLayerGroup, regionMarkersGroup, currentSelectedRegion,
                   rectangles, mapHasMarkerLayer, mapHasRegionMarkers,
                   mapHasRectangleLayer, paintOrder, currentZoom, viewport, details,
                   phase, lastMessages, calls, loadErrorAlerts, eventsInputs>>

NextEvents ==
    \/ events_initMap
    \/ events_initMapFails
    \/ applyEventsFilters
    \/ clearEventsFilters
    \/ toggleView

SpecEvents == Init /\ [][NextEvents]_vars

-----------------------------------------------------------------------------
(* The text functions run on their own: levenshteinDistance on two strings, *)
(* the location key and normalizeText on one.                               *)

TextAlphabet == {"a", "B", " ", "!"}

TextStrings == UNION {[1..n -> TextAlphabet] : n \in 0..MaxTextLen}

DistanceAlphabet == {"a", "B", " "}

DistanceStrings == UNION {[1..n -> DistanceAlphabet] : n \in 0..MaxTextLen}

Kitten == <<"k", "i", "t", "t", "e", "n">>
Sitting == <<"s", "i", "t", "t", "i", "n", "g">>

\* The strings the functions are called with: every pair of distance strings,
\* every text with an empty second string, and the pair of the example.
TextPairs ==
    (DistanceStrings \X DistanceStrings) \cup (TextStrings \X {<<>>})
        \cup {<<Kitten, Sitting>>}

InitText ==
    /\ allMessages = <<>>
    /\ locationCache = EmptyFn
    /\ rawLocationCache = <<>>
    /\ messageStore = EmptyFn
    /\ regionStore = EmptyFn
    /\ nextMsgId = 0
    /\ nextRegionId = 0
    /\ markerClusterGroup = <<>>
    /\ rectangleLayerGroup = <<>>
    /\ regionMarkersGroup = <<>>
    /\ currentSelectedRegion = NoRegion
    /\ filteredEventsMessages = <<>>
    /\ rectangles = EmptyFn
    /\ mapHasMarkerLayer = TRUE
    /\ mapHasRegionMarkers = TRUE
    /\ mapHasRectangleLayer = FALSE
    /\ paintOrder = <<>>
    /\ currentZoom = InitialZoom
    /\ viewport = InitialViewport
    /\ \E pair \in TextPairs :
           details = [open |-> FALSE, call |-> "none", str1 |-> pair[1], str2 |-> pair[2],
                      result |-> <<>>, distance |-> 0, reversed |-> 0]
    /\ phase = "ready"
    /\ lastMessages = <<>>
    /\ calls = <<>>
    /\ currentView = "map"
    /\ loadErrorAlerts = 0
    /\ eventsInputs = EmptyEventsInputs

TextUnchanged ==
    UNCHANGED <<currentView, loadErrorAlerts, eventsInputs,
                allMessages, locationCache, rawLocationCache, messageStore,
                regionStore, nextMsgId, nextRegionId, markerClusterGroup,
                rectangleLayerGroup, regionMarkersGroup, currentSelectedRegion,
                filteredEventsMessages, rectangles, mapHasMarkerLayer,
                mapHasRegionMarkers, mapHasRectangleLayer, paintOrder, currentZoom,
                viewport, phase, lastMessages, calls>>

\* levenshteinDistance(str1, str2) and levenshteinDistance(str2, str1).
levenshtein ==
    /\ details.call = "none"
    /\ details' = [details EXCEPT !.call = "levenshteinDistance",
                       !.distance = levenshteinDistance(details.str1, details.str2),
                       !.reversed = levenshteinDistance(details.str2, details.str1)]
    /\ TextUnchanged

\* location.trim().toLowerCase() of str1, or of the key a former call returned.
normalizeLocationKey ==
    /\ details.call \in {"none", "locationKey"}
    /\ \E location \in {details.str1} \cup (IF details.call = "none" THEN {} ELSE {details.result}) :
           details' = [details EXCEPT !.call = "locationKey", !.str1 = location,
                           !.result = locationKeyOf(location)]
    /\ TextUnchanged

\* normalizeText(str1), or of the text a former call returned.
normalizeSearchText ==
    /\ details.call \in {"none", "normalizeText"}
    /\ \E text \in {details.str1} \cup (IF details.call = "none" THEN {} ELSE {details.result}) :
           details' = [details EXCEPT !.call = "normalizeText", !.str1 = text,
                           !.result = normalizeText(text)]
    /\ TextUnchanged

NextText == levenshtein \/ normalizeLocationKey \/ normalizeSearchText

SpecText == InitText /\ [][NextText]_vars

-----------------------------------------------------------------------------
(* Properties.                                                             *)

SameBounds(x, y) ==
    /\ x.north = y.north /\ x.south = y.south /\ x.east = y.east /\ x.west = y.west

RegionCalls == {k \in 1..Len(calls) : isBoundingBox(calls[k].coord)}

\* The calls that brought this name with these bounds, and their messages in
\* the order of the calls.
CallsFor(locationName, bounds) ==
    {k \in RegionCalls :
        calls[k].locationName = locationName /\ SameBounds(calls[k].coord, bounds)}

MessagesOfCalls(locationName, bounds) ==
    LET Matches(call) == /\ isBoundingBox(call.coord)
                         /\ call.locationName = locationName
                         /\ SameBounds(call.coord, bounds)
        matching == SelectSeq(calls, Matches)
    IN [k \in 1..Len(matching) |-> matching[k].msg]

EntitiesFor(locationName, bounds) ==
    {id \in DOMAIN regionStore :
        regionStore[id].name = locationName /\ SameBounds(regionStore[id].bounds, bounds)}

\* C1: two ingestions of one location name with bounds equal on all four values
\* end in exactly one region entity, which lists the two messages in the order
\* of ingestion when they are the only ones; two ingestions of one name with
\* bounds that differ end in two distinct entities.
C1_SameNameSameBoundsOneEntity ==
    \A i \in RegionCalls : \A j \in RegionCalls :
        (i < j /\ calls[i].locationName = calls[j].locationName) =>
            LET name == calls[i].locationName
                ei == EntitiesFor(name, calls[i].coord)
                ej == EntitiesFor(name, calls[j].coord)
            IN IF SameBounds(calls[i].coord, calls[j].coord)
               THEN /\ Cardinality(ei) = 1
                    /\ Cardinality(CallsFor(name, calls[i].coord)) = 2 =>
                          \A id \in ei :
                              regionStore[id].messages = <<calls[i].msg, calls[j].msg>>
               ELSE /\ Cardinality(ei) = 1
                    /\ Cardinality(ej) = 1
                    /\ ei # ej
                    /\ Cardinality(DOMAIN regionStore) >= 2

C1_Witness ==
    \E i \in RegionCalls : \E j \in RegionCalls : \E k \in RegionCalls :
        /\ i < j /\ j < k
        /\ calls[i].locationName = calls[j].locationName
        /\ calls[i].locationName = calls[k].locationName
        /\ SameBounds(calls[i].coord, calls[j].coord)
        /\ ~SameBounds(calls[i].coord, calls[k].coord)
        /\ calls[i].msg # calls[j].msg
        /\ Cardinality(DOMAIN regionStore) = 2
        /\ \E id \in DOMAIN regionStore :
               regionStore[id].messages = <<calls[i].msg, calls[j].msg>>

\* C2, as claimed: no two region entities have bounds equal on all four values.
C2_NoTwoEntitiesShareBounds ==
    \A id1 \in DOMAIN regionStore : \A id2 \in DOMAIN regionStore :
        id1 # id2 => ~SameBounds(regionStore[id1].bounds, regionStore[id2].bounds)

\* C2, amended: no two region entities have both the same name and bounds equal
\* on all four values; every (message, location) pair that resolved to a
\* bounding box is listed, in order, by the one entity of its name and bounds.
C2_NoTwoEntitiesShareNameAndBounds ==
    /\ \A id1 \in DOMAIN regionStore : \A id2 \in DOMAIN regionStore :
           id1 # id2 =>
               ~(/\ regionStore[id1].name = regionStore[id2].name
                 /\ SameBounds(regionStore[id1].bounds, regionStore[id2].bounds))
    /\ \A k \in RegionCalls :
           LET e == EntitiesFor(calls[k].locationName, calls[k].coord) IN
           /\ Cardinality(e) = 1
           /\ \A id \in e : regionStore[id].messages =
                                MessagesOfCalls(calls[k].locationName, calls[k].coord)
    /\ \A id \in DOMAIN regionStore :
           CallsFor(regionStore[id].name, regionStore[id].bounds) # {}

C2_Witness ==
    /\ \E id1 \in DOMAIN regionStore : \E id2 \in DOMAIN regionStore :
           /\ id1 # id2
           /\ SameBounds(regionStore[id1].bounds, regionStore[id2].bounds)
           /\ regionStore[id1].name # regionStore[id2].name
    /\ \E id \in DOMAIN regionStore : Len(regionStore[id].messages) >= 2

TierOf(messageCount) ==
    IF messageCount >= 10 THEN "high"
    ELSE IF messageCount >= 5 THEN "medium"
    ELSE "low"

ShownTier(marker) ==
    CASE marker.icon.color = "#dc2626" -> "high"
      [] marker.icon.color = "#f59e0b" -> "medium"
      [] marker.icon.color = "#ff6b35" -> "low"
      [] OTHER -> "none"

TierRank(tier) == CASE tier = "high" -> 3 [] tier = "medium" -> 2 [] tier = "low" -> 1
                    [] OTHER -> 0

\* C3: after every creation of a region entity and every append to its list,
\* the tier its marker shows is the tier of its message count (high from 10,
\* medium from 5, low below); from one call to the next the tier of an entity
\* never moves down, and it changes only when the count reaches 5 or 10.
C3_TierFollowsCount ==
    [][\A id \in DOMAIN regionStore' :
          LET count == Len(regionStore'[id].messages)
              tier == ShownTier(regionStore'[id].marker)
          IN /\ tier = TierOf(count)
             /\ id \in DOMAIN regionStore =>
                   LET before == ShownTier(regionStore[id].marker) IN
                   /\ TierRank(tier) >= TierRank(before)
                   /\ tier # before => count \in {5, 10}]_vars

C3_Witness ==
    \E id \in DOMAIN regionStore :
        /\ Len(regionStore[id].messages) = 10
        /\ ShownTier(regionStore[id].marker) = "high"
        /\ regionStore[id].marker.tooltipCount = 10

\* What a rebuild leaves in the stores, the counters and the layer groups.
Aggregated(c) ==
    [messageStore |-> c.messageStore, regionStore |-> c.regionStore,
     nextMsgId |-> c.nextMsgId, nextRegionId |-> c.nextRegionId,
     markerClusterGroup |-> c.markerClusterGroup,
     rectangleLayerGroup |-> c.rectangleLayerGroup,
     regionMarkersGroup |-> c.regionMarkersGroup]

\* C4: whatever rebuilds came before, the stores, the counters and the layer
\* groups are those of one rebuild of the last message subset from the empty
\* initial state.
C4_RebuildStartsFromEmpty ==
    Aggregated(Ctx) = Aggregated(refreshMarkers(EmptyCtx, locationCache, lastMessages))

C4_Witness ==
    /\ ~mentionedLocationsThrow(allMessages)
    /\ lastMessages # allMessages
    /\ lastMessages # <<>>
    /\ nextRegionId >= 1
    /\ Len(markerClusterGroup) >= 1


\* The keys looked up in the properties below.
QueryKeys == {<<"a">>, <<"b">>, <<"c">>, <<"d">>}

\* C6, as claimed: the lookup of any key ends in one of Point, Region,
\* Unresolved and NotFound, and in NotFound exactly when the key is absent from
\* the cache.
C6_FourOutcomesNotFoundIffAbsent ==
    \A locationKey \in QueryKeys :
        LET outcome == lookupOutcome(locationCache, locationKey) IN
        /\ outcome \in {"Point", "Region", "Unresolved", "NotFound"}
        /\ outcome = "NotFound" <=> locationKey \notin DOMAIN locationCache

\* A location entry the claim C7 is about: malformed, null in the cache, or of
\* a key the cache does not hold.
Skipped(location) ==
    \/ location.t # "string"
    \/ trim(location.s) = <<>>
    \/ locationKeyOf(location.s) \notin DOMAIN locationCache
    \/ locationCache[locationKeyOf(location.s)] = CacheNull

WithoutSkipped(msg) ==
    LET Kept(location) == ~Skipped(location) IN
    [msg EXCEPT !.locations = SelectSeq(@, Kept)]

\* The aggregate c with every message it holds replaced by the message without
\* its skipped entries.
AggregatedWithoutSkipped(c) ==
    [Aggregated(c) EXCEPT
        !.messageStore = [id \in DOMAIN @ |-> WithoutSkipped(@[id])],
        !.regionStore = [id \in DOMAIN @ |->
            [@[id] EXCEPT !.messages =
                [k \in 1..Len(@) |-> WithoutSkipped(@[k])]]]]

\* C7: the rebuild equals the rebuild of the same messages with the malformed,
\* unresolved and not found entries removed: such an entry adds nothing and
\* stops nothing.
C7_SkippedEntriesLeaveNoTrace ==
    AggregatedWithoutSkipped(Ctx) =
        Aggregated(refreshMarkers(EmptyCtx, locationCache,
            [i \in 1..Len(lastMessages) |-> WithoutSkipped(lastMessages[i])]))

\* A message with a skipped entry between two placed ones, and a later message
\* placed as well, all of them skipped in three different ways.
C7_Witness ==
    /\ \E i \in 1..Len(lastMessages) : \E j \in 1..Len(lastMessages[i].locations) :
           /\ lastMessages[i].locations[j].t # "string"
           /\ \E h \in 1..(j - 1) : ~Skipped(lastMessages[i].locations[h])
           /\ \E h \in (j + 1)..Len(lastMessages[i].locations) :
                  ~Skipped(lastMessages[i].locations[h])
           /\ \E i2 \in (i + 1)..Len(lastMessages) :
                  \E h \in 1..Len(lastMessages[i2].locations) :
                      /\ ~Skipped(lastMessages[i2].locations[h])
                      /\ \E g \in 1..(h - 1) :
                             /\ lastMessages[i2].locations[g].t = "string"
                             /\ Skipped(lastMessages[i2].locations[g])
    /\ nextMsgId >= 3
    /\ DOMAIN regionStore # {}
    /\ markerClusterGroup # <<>>

\* C9, as claimed: every region entity has north >= south and east >= west.
C9_EveryEntityHasOrderedBounds ==
    \A id \in DOMAIN regionStore :
        /\ regionStore[id].bounds.north >= regionStore[id].bounds.south
        /\ regionStore[id].bounds.east >= regionStore[id].bounds.west

\* A message qualifies for bounds when a location of it resolves to a point
\* inside them or to a bounding box overlapping them.
Qualifies(msg, bounds) ==
    \E j \in 1..Len(msg.locations) :
        /\ msg.locations[j].t = "string"
        /\ LET coord == lookup(locationCache, locationKeyOf(msg.locations[j].s)) IN
           /\ Truthy(coord)
           /\ \/ /\ isPointCoord(coord)
                 /\ bounds.south <= coord.lat /\ coord.lat <= bounds.north
                 /\ bounds.west <= coord.lon /\ coord.lon <= bounds.east
              \/ /\ isBoundingBox(coord)
                 /\ ~(\/ coord.south > bounds.north \/ coord.north < bounds.south
                      \/ coord.west > bounds.east \/ coord.east < bounds.west)

\* C10, as claimed: findMessagesInRegion returns, and returns messages that
\* qualify and a representative of every message that qualifies.
C10_ResultIsTheQualifyingMessages ==
    \A bounds \in QueryBounds :
        LET found == findMessagesInRegion(allMessages, locationCache, bounds) IN
        /\ ~found.threw
        /\ \A k \in 1..Len(found.result) : Qualifies(found.result[k], bounds)
        /\ \A i \in 1..Len(allMessages) :
               Qualifies(allMessages[i], bounds) =>
                   \E k \in 1..Len(found.result) :
                       messageIdOf(found.result[k]) = messageIdOf(allMessages[i])


\* The search texts tried in the properties below.
SearchTexts == {<<>>, <<"a">>, <<"x", " ", "b">>}

\* C8, as claimed: with a non-string entry among the locations of a message,
\* findMessagesInRegion and isTextMatch return normally.
C8_QueriesNeverThrow ==
    /\ \A bounds \in QueryBounds :
           ~findMessagesInRegion(allMessages, locationCache, bounds).threw
    /\ \A i \in 1..Len(allMessages) : \A searchText \in SearchTexts :
           ~isTextMatch(allMessages[i], searchText).threw


\* The location names looked up in the properties below.
LookupNames == {<<"a">>, <<"A">>, <<" ", "a", " ">>, <<"b">>, <<"B", " ">>, <<"d">>}

\* C5, as claimed: for every key k the source supplied and every name s with
\* the normalized form of k, the lookup of s finds the entry supplied under k.
\* Keys whose normalized form is that of another supplied key are left out: no
\* lookup can find two entries.
C5_LookupFindsEntryOfEveryRawKey ==
    \A e \in 1..Len(rawLocationCache) : \A s \in LookupNames :
        (/\ locationKeyOf(s) = locationKeyOf(rawLocationCache[e].key)
         /\ \A other \in 1..Len(rawLocationCache) :
                other # e => locationKeyOf(rawLocationCache[other].key)
                                 # locationKeyOf(rawLocationCache[e].key))
        => lookup(locationCache, locationKeyOf(s)) = rawLocationCache[e].value

\* The deduplication key as C11 states it: the id when the message carries one,
\* the triple of text, date and channel otherwise.
statedKeyOf(msg) ==
    IF msg.id # NoId
    THEN [id |-> msg.id, text |-> <<>>, date |-> 0, channel |-> <<>>]
    ELSE [id |-> NoId, text |-> msg.text, date |-> msg.date, channel |-> msg.channel]

\* C11, as claimed: the result of findMessagesInRegion holds no two entries
\* with the same key, the key being the id of a message that carries one and
\* the triple of text, date and channel of one that carries none.
C11_ResultHasNoTwoEntriesOfOneKey ==
    details.open =>
        \A i \in 1..Len(details.messages) : \A j \in 1..Len(details.messages) :
            i # j => statedKeyOf(details.messages[i]) # statedKeyOf(details.messages[j])


\* The place of the first occurrence of a message in the full collection.
firstIndexOf(msg) ==
    CHOOSE k \in 1..Len(allMessages) :
        /\ allMessages[k] = msg
        /\ \A l \in 1..(k - 1) : allMessages[l] # msg

\* C12: the result of findMessagesInRegion is ordered by date, most recent
\* first, and two of its messages with equal dates keep the relative order
\* they have in the full collection.
C12_ResultIsNewestFirstAndStable ==
    details.open =>
        \A i \in 1..Len(details.messages) : \A j \in 1..Len(details.messages) :
            i < j =>
                /\ details.messages[i].date >= details.messages[j].date
                /\ details.messages[i].date = details.messages[j].date
                       => firstIndexOf(details.messages[i]) < firstIndexOf(details.messages[j])

\* A result of three messages, two of them of one date, whose newest message
\* is the last of the three in the full collection.
C12_Witness ==
    /\ details.open
    /\ Len(details.messages) = 3
    /\ details.messages[2].date = details.messages[3].date
    /\ details.messages[1].date > details.messages[2].date
    /\ firstIndexOf(details.messages[1]) = 3


\* The bounding boxes the loaded cache resolves location names to: the values
\* isLocationInBounds takes in its bounding-box case, and the bounds of the
\* region entities built from them.
CachedBoxes ==
    {locationCache[k] : k \in {key \in DOMAIN locationCache :
        /\ Truthy(locationCache[key])
        /\ ~isPointCoord(locationCache[key])
        /\ isBoundingBox(locationCache[key])}}

\* C13, as claimed: the overlap test of isLocationInBounds is symmetric,
\* overlap(a, b) = overlap(b, a), and reflexive, overlap(a, a) is true, for
\* all the regions a and b of the program.
C13_OverlapIsSymmetricAndReflexive ==
    \A a \in CachedBoxes : \A b \in CachedBoxes :
        /\ isLocationInBounds(a, b) = isLocationInBounds(b, a)
        /\ isLocationInBounds(a, a)


\* Two intervals with no value in common.
Separated(lowA, highA, lowB, highB) == lowA > highB \/ lowB > highA

\* C14: for a point, isLocationInBounds is true exactly when the point lies
\* within the bounds, the boundary included; for a box, it is false exactly
\* when box and bounds are separated in latitude or in longitude, so a box
\* that only touches the bounds overlaps them; the point (31.5, 34.5) is
\* inside the region north 32, south 31, east 35, west 34 and (30, 34.5) is
\* outside.
C14_PointInsideInclusiveBoxOverlapTouching ==
    /\ \A key \in DOMAIN locationCache : \A bounds \in QueryBounds :
        LET coord == locationCache[key] IN
        /\ (isPointCoord(coord) /\ ~isBoundingBox(coord)) =>
               (isLocationInBounds(coord, bounds)
                    <=> /\ coord.lat \in bounds.south..bounds.north
                        /\ coord.lon \in bounds.west..bounds.east)
        /\ (isBoundingBox(coord) /\ ~isPointCoord(coord)) =>
               (~isLocationInBounds(coord, bounds)
                    <=> \/ Separated(coord.south, coord.north, bounds.south, bounds.north)
                        \/ Separated(coord.west, coord.east, bounds.west, bounds.east))
    /\ isLocationInBounds(InProvince, Province)
    /\ ~isLocationInBounds(SouthOfProvince, Province)
    /\ (details.open /\ <<"a">> \in DOMAIN locationCache) =>
           \A i \in 1..Len(allMessages) :
               (/\ allMessages[i].locations = <<Str(<<"a">>)>>
                /\ \/ locationCache[<<"a">>] = Corner /\ details.bounds \in {Outer, Far}
                   \/ locationCache[<<"a">>] = InProvince /\ details.bounds = Province)
                   => \E j \in 1..Len(details.messages) :
                          details.messages[j] = allMessages[i]

\* A query of Far has found a message whose only location is the box that
\* touches Far in one corner.
C14_Witness ==
    /\ details.open
    /\ details.bounds = Far
    /\ locationCache[<<"a">>] = Corner
    /\ \E j \in 1..Len(details.messages) :
           details.messages[j].locations = <<Str(<<"a">>)>>


\* A rectangle is hidden when both its opacities are 0.
IsHidden(rectangle) == rectangle.style = HiddenStyle

\* The rule of C15: the spans are in hundredths of a degree, and relativeArea
\* is the quotient of the area of the shape and the area of the viewport.
HiddenByRule(zoom, view, rectangle) ==
    LET latSpan == rectangle.bounds.north - rectangle.bounds.south
        lonSpan == rectangle.bounds.east - rectangle.bounds.west
        area == latSpan * lonSpan
        viewArea == view.latSpan * view.lonSpan
    IN \/ zoom < 9 /\ (latSpan < 10 \/ lonSpan < 10)
       \/ 9 <= zoom /\ zoom < 11 /\ (latSpan < 5 \/ lonSpan < 5)
       \/ 11 <= zoom /\ zoom < 13 /\ (latSpan < 1 \/ lonSpan < 1)
       \/ zoom > 13 /\ 100 * area > 40 * viewArea
       \/ 11 < zoom /\ zoom <= 13 /\ 100 * area > 60 * viewArea

\* C15: once updateRegionVisibility has run for the zoom and viewport of the
\* map, a shape is hidden exactly when one of the rules of the zoom band
\* applies (a span below 0.1, 0.05 or 0.01 degrees below zoom 9, 11 or 13; a
\* relative area above 0.4 above zoom 13 or above 0.6 above zoom 11), and has
\* the style of a shown shape otherwise.
C15_HiddenExactlyByZoomBandRule ==
    mapHasRectangleLayer =>
        \A id \in DOMAIN rectangles :
            /\ IsHidden(rectangles[id]) <=> HiddenByRule(currentZoom, viewport, rectangles[id])
            /\ ~IsHidden(rectangles[id]) => rectangles[id].style = ShownStyle

\* At zoom 14 a shape of relative area 0.5 is hidden next to a shown one.
C15_Witness ==
    /\ mapHasRectangleLayer
    /\ currentZoom = 14
    /\ \E id \in DOMAIN rectangles : \E other \in DOMAIN rectangles :
        /\ IsHidden(rectangles[id])
        /\ ~IsHidden(rectangles[other])
        /\ 2 * areaOf(rectangles[id]) = viewport.latSpan * viewport.lonSpan


\* The shapes shown at a zoom and viewport, in ascending order of raw area.
VisibleByArea(rects, group, zoom, view) ==
    SelectSeq(sortByArea(rects, group), LAMBDA id : shouldShow(zoom, view, rects[id]))

\* The split of C16: of the visible shapes in ascending order of area, the
\* smaller half is brought to the front and the larger half sent to the back.
RECURSIVE SplitAmongVisible(_, _, _)
SplitAmongVisible(order, visible, index) ==
    IF index >= Len(visible) THEN order
    ELSE SplitAmongVisible(IF 2 * index < Len(visible)
                           THEN bringToFront(order, visible[index + 1])
                           ELSE bringToBack(order, visible[index + 1]),
                           visible, index + 1)

\* C16, as claimed: when updateRegionVisibility runs after a change of zoom,
\* the paint order becomes the one that results from bringing the smaller half
\* of the visible shapes to the front and sending the larger half of the
\* visible shapes to the back, whatever the hidden shapes.
C16_SplitIsTakenAmongVisibleShapes ==
    [][(mapHasRectangleLayer /\ currentZoom' # currentZoom) =>
          paintOrder' = SplitAmongVisible(paintOrder,
                            VisibleByArea(rectangles, rectangleLayerGroup,
                                          currentZoom', viewport'), 0)]_vars

\* The place of a shape in the stack, from the back.
PlaceOf(id) == CHOOSE k \in 1..Len(paintOrder) : paintOrder[k] = id

\* C17, as claimed: once updateRegionVisibility has run, of any two visible
\* shapes the one of strictly smaller raw area is above the other in the
\* stack.
C17_SmallerVisibleShapeIsAbove ==
    mapHasRectangleLayer =>
        \A a \in DOMAIN rectangles : \A b \in DOMAIN rectangles :
            (/\ ~IsHidden(rectangles[a])
             /\ ~IsHidden(rectangles[b])
             /\ areaOf(rectangles[a]) < areaOf(rectangles[b]))
                => PlaceOf(a) > PlaceOf(b)


\* C18, as claimed: the shown or hidden state of the shapes is never stale:
\* after every change of zoom, of viewport (a pan or a resize) and of the set
\* of shapes, once the handler has run and the rectangle layer is on the map,
\* every shape is hidden exactly when the rule of updateRegionVisibility hides
\* it at the zoom and viewport of the map.
C18_ShownStateIsNeverStale ==
    (phase = "ready" /\ mapHasRectangleLayer) =>
        \A id \in DOMAIN rectangles :
            IsHidden(rectangles[id]) <=> ~shouldShow(currentZoom, viewport, rectangles[id])


\* The fields of C19: text, cleaned text, channel and every location name,
\* each normalized; an entry that is no name and no number is no field.
StatedFields(msg) ==
    {normalizeText(msg.text), normalizeText(msg.cleaned_text), normalizeText(msg.channel)}
        \cup {normalizeText(toStringOf(msg.locations[j])) :
                 j \in {l \in 1..Len(msg.locations) : msg.locations[l].t # "null"}}

\* The whitespace-delimited tokens of a field.
TokensOf(field) == Range(splitWhitespace(field))

\* The four strategies of C19 over the words of a search text.
StatedStrategies(msg, searchText) ==
    LET words == Range(searchWordsOf(searchText))
        fields == StatedFields(msg)
    IN \/ \A w \in words : \E f \in fields : includes(f, w)
       \/ \E f \in fields : \A w \in words : includes(f, w)
       \/ \E w \in words : \E f \in fields : \E token \in TokensOf(f) :
              /\ Len(w) > 3
              /\ 10 * (Max2(Len(w), Len(token)) - levenshteinDistance(w, token))
                     >= 8 * Max2(Len(w), Len(token))
       \/ \E w \in words : \E f \in fields : \E token \in TokensOf(f) :
              /\ Len(w) > 2
              /\ startsWith(token, w) \/ startsWith(w, token)

\* C19, as claimed: for a search text that is not empty, isTextMatch returns
\* true exactly when one of the four strategies holds over the normalized
\* fields of the message: every word is part of some field; some field holds
\* every word; some word of more than 3 characters has similarity 0.8 or more
\* to a token of a field; some word of more than 2 characters is a prefix of a
\* token of a field or has one as a prefix.
C19_MatchExactlyWhenAStrategyHolds ==
    (details.open /\ details.searchText # <<>>) =>
        \A i \in 1..Len(allMessages) :
            /\ ~details.outcomes[i].threw
            /\ details.outcomes[i].match <=> StatedStrategies(allMessages[i], details.searchText)


\* C20, as claimed: the search text is normalized as the fields are before it
\* is split into words, so isTextMatch gives for a search text what it gives
\* for the normalized search text, and punctuation in the search text never
\* changes the result.
C20_NormalizedQueryGivesTheSameMatch ==
    details.open =>
        \A i \in 1..Len(allMessages) :
            LET normalized == isTextMatch(allMessages[i], normalizeText(details.searchText)) IN
            (~details.outcomes[i].threw /\ ~normalized.threw)
                => details.outcomes[i].match = normalized.match


\* The messages of the collection that pass the date and the channel filter of
\* the inputs.
PassDateAndChannel(inputs) ==
    LET range == eventsDateRange(inputs.startDate, inputs.endDate)
        passes(msg) == passesDateFilter(msg, range) /\ passesChannelFilter(msg, inputs.channel)
    IN SelectSeq(allMessages, passes)

RangeInverted(inputs) ==
    LET range == eventsDateRange(inputs.startDate, inputs.endDate)
    IN range.given /\ range.startDate > range.endDate

\* C21: a search text that is empty or holds only whitespace matches every
\* message: isTextMatch returns true for every message of the collection, and
\* applyEventsFilters with such a search input keeps every message that passes
\* the date and the channel filter.
C21_EmptyQueryMatchesEveryMessage ==
    [][(/\ applyEventsFilters
        /\ searchWordsOf(eventsInputs'.searchText) = <<>>
        /\ ~RangeInverted(eventsInputs'))
          => /\ \A i \in 1..Len(allMessages) :
                    isTextMatch(allMessages[i], eventsInputs'.searchText)
                        = [threw |-> FALSE, match |-> TRUE]
             /\ filteredEventsMessages' = PassDateAndChannel(eventsInputs')]_vars

\* A search input of one space with the channel filter set: a message with a
\* null location is kept while another message is filtered out.
C21_Witness ==
    /\ eventsInputs.searchText = <<" ">>
    /\ eventsInputs.channel = <<"p">>
    /\ Len(filteredEventsMessages) < Len(allMessages)
    /\ \E i \in 1..Len(filteredEventsMessages) :
           filteredEventsMessages[i].locations[1] = JNull


\* The strings one insertion, deletion or substitution away from s, over the
\* characters of the alphabet and no longer than maxLength.
OneEdit(s, alphabet, maxLength) ==
    {SubSeq(s, 1, i - 1) \o SubSeq(s, i + 1, Len(s)) : i \in 1..Len(s)}
      \cup {[s EXCEPT ![i] = c] : i \in 1..Len(s), c \in alphabet}
      \cup (IF Len(s) >= maxLength THEN {}
            ELSE {SubSeq(s, 1, i) \o <<c>> \o SubSeq(s, i + 1, Len(s)) :
                      i \in 0..Len(s), c \in alphabet})

\* The least number of edits that turn s1 into s2, by the strings within
\* reach of s1: edits beyond reach are added until s2 is among them.
RECURSIVE EditsUntil(_, _, _, _, _)
EditsUntil(reached, s2, alphabet, maxLength, edits) ==
    IF s2 \in reached THEN edits
    ELSE EditsUntil(reached \cup UNION {OneEdit(s, alphabet, maxLength) : s \in reached},
                    s2, alphabet, maxLength, edits + 1)

EditDistance(s1, s2) ==
    EditsUntil({s1}, s2, Range(s1) \cup Range(s2), Max2(Len(s1), Len(s2)), 0)

\* C22: levenshteinDistance(s1, s2) is the least number of insertions,
\* deletions and substitutions of one character that turn s1 into s2, for all
\* strings of the alphabet up to the length bound, the empty string included;
\* it is 0 exactly when the strings are equal, it is the same in both
\* directions, and it is 3 for 'kitten' and 'sitting'.
C22_LevenshteinIsEditDistance ==
    details.call = "levenshteinDistance" =>
        /\ details.distance = details.reversed
        /\ (details.distance = 0) <=> (details.str1 = details.str2)
        /\ (details.str1 = Kitten /\ details.str2 = Sitting) => details.distance = 3
        /\ (details.str1 \in DistanceStrings /\ details.str2 \in DistanceStrings)
              => details.distance = EditDistance(details.str1, details.str2)

\* The distance of two strings of the same length that need a deletion, an
\* insertion and no more.
C22_Witness ==
    /\ details.call = "levenshteinDistance"
    /\ details.str1 = <<"a", "B", "B">>
    /\ details.str2 = <<"B", "B", " ">>
    /\ details.distance = 2

\* C23: both normalizers are idempotent: the key of a key is the key, and the
\* normalized text of a normalized text is that text.
C23_NormalizersAreIdempotent ==
    /\ details.call = "locationKey" => locationKeyOf(details.result) = details.result
    /\ details.call = "normalizeText" => normalizeText(details.result) = details.result

\* A text with upper case, punctuation and whitespace at its start, which
\* both normalizers change.
C23_Witness ==
    /\ details.call = "normalizeText"
    /\ details.str1 = <<" ", "B", "!">>
    /\ details.result = <<"b">>
    /\ locationKeyOf(details.str1) = <<"b", "!">>


\* C24: when the load fails at any step (a response that is not ok, a body
\* that does not parse, a record that cannot be processed), the message
\* collection, the location cache, the message store and the region store are
\* empty after initMap, one failure alert has been raised, and the queries and
\* filters that follow give an empty result.
C24_FailedLoadLeavesEverythingEmpty ==
    (phase = "ready" /\ loadErrorAlerts > 0) =>
        /\ loadErrorAlerts = 1
        /\ allMessages = <<>>
        /\ locationCache = EmptyFn
        /\ messageStore = EmptyFn
        /\ regionStore = EmptyFn
        /\ filteredEventsMessages = <<>>


\* No strategy has evidence in the message: no search word is part of a
\* normalized field, no token of a field has similarity 0.8 or more to a word
\* of more than 3 characters, and no token that is not empty is a prefix of a
\* word of more than 2 characters or has one as a prefix.
NoEvidence(msg, searchText) ==
    LET words == Range(searchWordsOf(searchText))
        fields == StatedFields(msg)
    IN /\ \A w \in words : \A f \in fields : ~includes(f, w)
       /\ \A w \in words : \A f \in fields : \A token \in TokensOf(f) :
              Len(w) > 3 =>
                  10 * (Max2(Len(w), Len(token)) - levenshteinDistance(w, token))
                      < 8 * Max2(Len(w), Len(token))
       /\ \A w \in words : \A f \in fields : \A token \in TokensOf(f) :
              (Len(w) > 2 /\ token # <<>>) =>
                  ~(startsWith(token, w) \/ startsWith(w, token))

\* C25, as claimed: for a search text with a word in it, isTextMatch returns
\* false for every message in which no strategy has evidence, a message whose
\* text, cleaned text or channel is missing or normalizes to the empty string
\* included.
C25_NoMatchWithoutEvidence ==
    (details.open /\ searchWordsOf(details.searchText) # <<>>) =>
        \A i \in 1..Len(allMessages) :
            (NoEvidence(allMessages[i], details.searchText) /\ ~details.outcomes[i].threw)
                => ~details.outcomes[i].match


\* C26, as claimed: after a load that succeeded, toggleView never changes
\* filteredEventsMessages, the case in which no message passes the filters
\* included; the filtered messages stay as they are until applyEventsFilters
\* or clearEventsFilters runs again.
C26_ToggleViewKeepsTheFilteredMessages ==
    [][(toggleView /\ loadErrorAlerts = 0)
          => filteredEventsMessages' = filteredEventsMessages]_vars


\* C27, as claimed: after a load that succeeded, filteredEventsMessages is
\* ordered newest first after initEventsData, clearEventsFilters, toggleView
\* and every applyEventsFilters, whatever the order of the loaded records.
C27_FilteredMessagesAreNewestFirst ==
    (phase = "ready" /\ loadErrorAlerts = 0) =>
        \A i, j \in 1..Len(filteredEventsMessages) :
            i < j => filteredEventsMessages[i].date >= filteredEventsMessages[j].date


\* C28, as claimed: addLocationToMap, goToLocation and isLocationInBounds take
\* the same branch (region, point, invalid) for every value of the cache, a
\* value with lat and lon and with north, south, east and west included; so a
\* location that was aggregated as a region is tested against the bounds of a
\* region with the overlap predicate.
C28_FunctionsAgreeOnTheGeometryKind ==
    /\ \A key \in DOMAIN locationCache :
           LET coord == locationCache[key] IN
           Truthy(coord) =>
               /\ addLocationToMap_kind(coord) = goToLocation_kind(coord)
               /\ addLocationToMap_kind(coord) = isLocationInBounds_kind(coord)
    /\ \A k \in RegionCalls : \A id \in DOMAIN regionStore :
           LET coord == calls[k].coord
               bounds == regionStore[id].bounds
           IN isLocationInBounds(coord, bounds)
                  <=> ~(\/ Separated(coord.south, coord.north, bounds.south, bounds.north)
                        \/ Separated(coord.west, coord.east, bounds.west, bounds.east))


\* C29, as claimed: in every reachable state, every region entity has no more
\* directly associated messages than findMessagesInRegion returns for the
\* bounds of the region, so the total less the direct messages is never
\* negative.
C29_DirectMessagesAreAmongTheFound ==
    \A id \in DOMAIN regionStore :
        LET found == findMessagesInRegion(allMessages, locationCache, regionStore[id].bounds)
        IN /\ ~found.threw
           /\ Len(regionStore[id].messages) <= Len(found.result)


\* The regions whose rectangle is styled to be seen.
VisibleRectangles == {id \in DOMAIN rectangles : ~IsHidden(rectangles[id])}

\* C30: under every interleaving of showRegionDetails, closeDetails, clicks on
\* the map, layer toggles and rebuilds, currentSelectedRegion is null or the id
\* of an entity of regionStore, at most one rectangle is visible, a visible
\* rectangle is that of the selected region, and the rectangle layer is on the
\* map whenever a region is selected.
C30_SelectionAndRectanglesAgree ==
    /\ currentSelectedRegion = NoRegion \/ currentSelectedRegion \in DOMAIN regionStore
    /\ Cardinality(VisibleRectangles) <= 1
    /\ \A id \in VisibleRectangles : id = currentSelectedRegion
    /\ currentSelectedRegion # NoRegion => mapHasRectangleLayer

\* The second of two regions is selected and its rectangle alone is visible,
\* the rectangle layer being on the map.
C30_Witness ==
    /\ Cardinality(DOMAIN regionStore) >= 2
    /\ currentSelectedRegion = 1
    /\ VisibleRectangles = {1}
    /\ rectangles[1].style = SelectedStyle
    /\ mapHasRectangleLayer


====
